---------------------------- MODULE Spec2Model ----------------------------
(***************************************************************************)
(* A model of the BotFinanzas statement pipeline: the amount normalizer,   *)
(* the AI response parser, the extraction orchestrator, process_file and   *)
(* the batch run of FinancialBot.                                          *)
(*                                                                         *)
(* A Python str is a sequence of one-character strings.  A Python float is *)
(* an exact decimal [n |-> numerator, s |-> decimal places] (value         *)
(* n / 10^s) kept in lowest form.  A Python exception that leaves a call   *)
(* is the record Raise(<kind>) standing in place of the value returned.    *)
(***************************************************************************)
EXTENDS Integers, Sequences, FiniteSets, TLC

VARIABLES
    amount_str,      \* _parse_amount: the argument
    amount_pc,       \* _parse_amount: "idle" | "call" | "returned" | "raised" | "reparsed"
    amount_ret,      \* _parse_amount: the value returned
    amount_again,    \* _parse_amount: the value returned for str(amount_ret)
    ai_outcome,      \* parse_transactions: what the model call does
    ai_pc,           \* parse_transactions: "idle" | "call" | "returned" | "raised"
    ai_ret,          \* parse_transactions: the value returned
    run_pc,          \* FinancialBot.run: "idle" | "loop" | "crashed"
    runs,            \* the number of runs started
    seen,            \* the number of attachments this run has come to
    processed_files, \* FileTracker.processed_files of this run's FinancialBot
    tracking_file,   \* the hashes stored in processed_files.json
    processed_count, \* run: processed_count
    skipped_count,   \* run: skipped_count
    outputs,         \* the files of outputs/
    last_file,       \* the last attachment the loop came to and what became of it
    fn_args,         \* a function called on its own: its name and arguments
    fn_pc,           \* that call: "idle" | "call" | "returned" | "raised"
    fn_ret           \* that call: the value returned

amountVars == <<amount_str, amount_pc, amount_ret, amount_again>>

aiVars == <<ai_outcome, ai_pc, ai_ret>>

runVars == <<run_pc, runs, seen, processed_files, tracking_file,
             processed_count, skipped_count, outputs, last_file>>

vars == <<amount_str, amount_pc, amount_ret, amount_again, ai_outcome, ai_pc, ai_ret,
          run_pc, runs, seen, processed_files, tracking_file,
          processed_count, skipped_count, outputs, last_file,
          fn_args, fn_pc, fn_ret>>

fnVars == <<fn_args, fn_pc, fn_ret>>

---------------------------------------------------------------------------
(* Bounds of the model.                                                    *)

MaxAmountLen == 4

MaxRespLen == 4

MaxElems == 2

MaxBatch == 2

MaxRuns == 2
MaxDateParts == 4
MaxWords == 2
MaxRows == 1
MaxLines == 3
MaxTables == 2
MaxGap == 6

---------------------------------------------------------------------------
(* Python values.                                                          *)

\* Every value that may stand where a value of another type may stand carries
\* its type in the field t, so that two of them can always be compared.
None == [t |-> "none"]

Raise(kind) == [t |-> "exc", kind |-> kind]

IsRaise(v) == v.t = "exc"

\* try: r   except: default
Except(r, default) == IF IsRaise(r) THEN default ELSE r

PyStr(chars) == [t |-> "str", v |-> chars]

PyList(items) == [t |-> "list", v |-> items]

PyBool(b) == [t |-> "bool", b |-> b]

IsStr(v) == v.t = "str"

RECURSIVE SeqsUpTo(_, _)
SeqsUpTo(S, n) ==
    IF n = 0 THEN {<< >>}
    ELSE LET shorter == SeqsUpTo(S, n - 1)
         IN  shorter \cup {Append(q, c) : q \in {r \in shorter : Len(r) = n - 1}, c \in S}

---------------------------------------------------------------------------
(* str methods.                                                            *)

Digits == {"0", "1", "2", "3", "4", "5", "6", "7", "8", "9"}

DigitVal(c) ==
    CASE c = "0" -> 0 [] c = "1" -> 1 [] c = "2" -> 2 [] c = "3" -> 3
      [] c = "4" -> 4 [] c = "5" -> 5 [] c = "6" -> 6 [] c = "7" -> 7
      [] c = "8" -> 8 [] c = "9" -> 9

Whitespace == {" ", "\t", "\n", "\r"}

\* s.replace(ch, rep) for a one-character ch
RECURSIVE StrReplace(_, _, _)
StrReplace(s, ch, rep) ==
    IF rep = << >> THEN SelectSeq(s, LAMBDA c : c # ch)
    ELSE IF Len(rep) = 1 THEN [i \in 1..Len(s) |-> IF s[i] = ch THEN rep[1] ELSE s[i]]
    ELSE IF s = << >> THEN << >>
    ELSE (IF Head(s) = ch THEN rep ELSE <<Head(s)>>) \o StrReplace(Tail(s), ch, rep)

RECURSIVE LStrip(_)
LStrip(s) ==
    IF s # << >> /\ Head(s) \in Whitespace THEN LStrip(Tail(s)) ELSE s

RECURSIVE RStrip(_)
RStrip(s) ==
    IF s # << >> /\ s[Len(s)] \in Whitespace THEN RStrip(SubSeq(s, 1, Len(s) - 1)) ELSE s

\* s.strip()
StrStrip(s) == RStrip(LStrip(s))

\* re.sub(r'[^\d.-]', '', s)
KeepNumeric(s) == SelectSeq(s, LAMBDA c : c \in Digits \cup {".", "-"})

\* sub in s
StrContains(s, sub) ==
    \E i \in 0..(Len(s) - Len(sub)) : SubSeq(s, i + 1, i + Len(sub)) = sub

\* any(k in s for k in keywords), keywords a sequence
ContainsAny(s, keywords) == \E k \in 1..Len(keywords) : StrContains(s, keywords[k])

UpperChars ==
    <<"A", "B", "C", "D", "E", "F", "G", "H", "I", "J", "K", "L", "M", "N", "O",
      "P", "Q", "R", "S", "T", "U", "V", "W", "X", "Y", "Z",
      "Á", "É", "Í", "Ó", "Ú", "Ñ">>

LowerChars ==
    <<"a", "b", "c", "d", "e", "f", "g", "h", "i", "j", "k", "l", "m", "n", "o",
      "p", "q", "r", "s", "t", "u", "v", "w", "x", "y", "z",
      "á", "é", "í", "ó", "ú", "ñ">>

LowerChar(c) ==
    IF \E i \in 1..Len(UpperChars) : UpperChars[i] = c
    THEN LowerChars[CHOOSE i \in 1..Len(UpperChars) : UpperChars[i] = c]
    ELSE c

\* s.lower()
StrLower(s) == [i \in 1..Len(s) |-> LowerChar(s[i])]

\* s[:n]
StrPrefix(s, n) == SubSeq(s, 1, IF Len(s) < n THEN Len(s) ELSE n)

\* s.split(ch) for a one-character ch: the parts, in order
RECURSIVE StrSplit(_, _)
StrSplit(s, ch) ==
    IF \E i \in 1..Len(s) : s[i] = ch
    THEN LET i == CHOOSE i \in 1..Len(s) : s[i] = ch /\ \A j \in 1..(i - 1) : s[j] # ch
         IN  <<SubSeq(s, 1, i - 1)>> \o StrSplit(SubSeq(s, i + 1, Len(s)), ch)
    ELSE <<s>>

---------------------------------------------------------------------------
(* float.                                                                  *)

RECURSIVE Pow10(_)
Pow10(k) == IF k = 0 THEN 1 ELSE 10 * Pow10(k - 1)

RECURSIVE Norm(_)
Norm(v) ==
    IF v.s > 0 /\ v.n % 10 = 0 THEN Norm([v EXCEPT !.n = v.n \div 10, !.s = v.s - 1]) ELSE v

Float(n, s) == Norm([t |-> "float", n |-> n, s |-> s])

Zero == Float(0, 0)

IsFloat(v) == v.t = "float"

FloatAbs(v) == [v EXCEPT !.n = IF v.n < 0 THEN -v.n ELSE v.n]

FloatAdd(a, b) ==
    LET s == IF a.s > b.s THEN a.s ELSE b.s
    IN  Float(a.n * Pow10(s - a.s) + b.n * Pow10(s - b.s), s)

\* the mutant of FloatGtZero that lets 0 through
FloatGtZero_or_equal(v) == v.n >= 0

FloatGtZero(v) == v.n > 0

FloatGeZero(v) == v.n >= 0

RECURSIVE DigitsValue(_)
DigitsValue(s) ==
    IF s = << >> THEN 0 ELSE DigitsValue(SubSeq(s, 1, Len(s) - 1)) * 10 + DigitVal(s[Len(s)])

AllDigits(s) == \A i \in 1..Len(s) : s[i] \in Digits

DotAt(s) == IF \E i \in 1..Len(s) : s[i] = "."
            THEN CHOOSE i \in 1..Len(s) : s[i] = "." /\ \A j \in 1..(i - 1) : s[j] # "."
            ELSE 0

\* float(s) for a str of digits, '.', '-' and '+': an optional sign, then digits
\* with at most one '.', at least one digit in all; anything else is a ValueError.
FloatOfParts(negative, ip, fp) ==
    IF AllDigits(ip \o fp) /\ Len(ip) + Len(fp) > 0
    THEN Float((IF negative THEN -1 ELSE 1) * DigitsValue(ip \o fp), Len(fp))
    ELSE Raise("ValueError")

FloatOfUnsigned(negative, body, dot) ==
    FloatOfParts(negative,
                 IF dot = 0 THEN body ELSE SubSeq(body, 1, dot - 1),
                 IF dot = 0 THEN << >> ELSE SubSeq(body, dot + 1, Len(body)))

PyFloatStr(s) ==
    IF s # << >> /\ Head(s) \in {"-", "+"}
    THEN FloatOfUnsigned(Head(s) = "-", Tail(s), DotAt(Tail(s)))
    ELSE FloatOfUnsigned(FALSE, s, DotAt(s))

---------------------------------------------------------------------------
(* int and datetime.date.                                                  *)

\* int(s) for a str: surrounding whitespace is dropped, then an optional sign
\* and one or more digits; anything else is a ValueError.
\* the decimal digits of a natural number
RECURSIVE IntDigits(_)
IntDigits(n) ==
    IF n < 10 THEN <<CHOOSE c \in Digits : DigitVal(c) = n>>
    ELSE Append(IntDigits(n \div 10), CHOOSE c \in Digits : DigitVal(c) = n % 10)

\* k times '0'
Zeros(k) == [i \in 1..k |-> "0"]

\* repr of a float in positional notation: digits are those of the numerator,
\* places the number of them behind the point
FixedRepr(digits, places) ==
    IF places = 0 THEN digits \o <<".", "0">>
    ELSE IF Len(digits) > places
    THEN SubSeq(digits, 1, Len(digits) - places) \o <<".">>
         \o SubSeq(digits, Len(digits) - places + 1, Len(digits))
    ELSE <<"0", ".">> \o Zeros(places - Len(digits)) \o digits

\* repr of a float in exponent notation, for the decimal exponent exp
ExpRepr(digits, exp) ==
    <<Head(digits)>>
        \o (IF Len(digits) > 1 THEN <<".">> \o Tail(digits) ELSE << >>)
        \o <<"e", IF exp < 0 THEN "-" ELSE "+">>
        \o (IF exp > -10 /\ exp < 10 THEN <<"0">> ELSE << >>)
        \o IntDigits(IF exp < 0 THEN -exp ELSE exp)

\* float.__repr__ of a magnitude: positional for 1e-4 <= x < 1e16
ReprOfDigits(digits, places) ==
    IF Len(digits) - 1 - places < -4 \/ Len(digits) - 1 - places >= 16
    THEN ExpRepr(digits, Len(digits) - 1 - places)
    ELSE FixedRepr(digits, places)

\* str(x) for a float x
PyStrFloat(x) ==
    IF x.n = 0 THEN <<"0", ".", "0">>
    ELSE (IF x.n < 0 THEN <<"-">> ELSE << >>)
         \o ReprOfDigits(IntDigits(IF x.n < 0 THEN -x.n ELSE x.n), x.s)

IntOfUnsigned(negative, body) ==
    IF body # << >> /\ AllDigits(body)
    THEN [t |-> "int", i |-> (IF negative THEN -1 ELSE 1) * DigitsValue(body)]
    ELSE Raise("ValueError")

IntOfStripped(st) ==
    IF st # << >> /\ Head(st) \in {"-", "+"}
    THEN IntOfUnsigned(Head(st) = "-", Tail(st))
    ELSE IntOfUnsigned(FALSE, st)

PyIntStr(s) == IntOfStripped(StrStrip(s))

IsLeap(y) == (y % 4 = 0 /\ y % 100 # 0) \/ y % 400 = 0

DaysInMonth(y, m) ==
    IF m = 2 THEN (IF IsLeap(y) THEN 29 ELSE 28)
    ELSE IF m \in {4, 6, 9, 11} THEN 30 ELSE 31

\* date(year, month, day): a ValueError unless it names a calendar day
PyDate(y, m, d) ==
    IF /\ 1 <= y /\ y <= 9999
       /\ 1 <= m /\ m <= 12
       /\ 1 <= d /\ d <= DaysInMonth(y, m)
    THEN [t |-> "date", y |-> y, m |-> m, d |-> d]
    ELSE Raise("ValueError")

---------------------------------------------------------------------------
(* TransactionExtractor._parse_amount                                      *)

Str_nan == <<"n", "a", "n">>

Str_None == <<"N", "o", "n", "e">>

Str_none == <<"n", "o", "n", "e">>

Str_NULL == <<"N", "U", "L", "L">>

\* abs(float(amount_str)) of line 221
abs_float(value) == IF IsRaise(value) THEN value ELSE FloatAbs(value)

\* lines 216-222, behind the two replace calls
parse_amount_numeric(numeric) ==
    IF numeric = << >> \/ numeric = <<"-">> THEN Zero ELSE abs_float(PyFloatStr(numeric))

\* the mutant of parse_amount_try that leaves the '.' in place
parse_amount_try_keep_dots(cleaned) ==
    parse_amount_numeric(KeepNumeric(StrReplace(cleaned, ",", <<".">>)))

\* the body of the try block (lines 210-222): what it returns, or the
\* exception float() raises
parse_amount_try(cleaned) ==
    parse_amount_numeric(
        KeepNumeric(StrReplace(StrReplace(cleaned, ".", << >>), ",", <<".">>)))

\* the mutant of parse_amount_cleaned whose try block has no except clause
parse_amount_no_except(cleaned) ==
    IF cleaned = << >> \/ cleaned = <<"-">> \/ cleaned = <<".">>
    THEN Zero
    ELSE parse_amount_try(cleaned)

\* lines 206-224, behind the removal of '$' and blanks
parse_amount_cleaned(cleaned) ==
    IF cleaned = << >> \/ cleaned = <<"-">> \/ cleaned = <<".">>
    THEN Zero
    ELSE Except(parse_amount_try(cleaned), Zero)

_parse_amount(s) ==
    IF s = << >> \/ s \in {Str_nan, Str_None, Str_none, Str_NULL}
    THEN Zero
    ELSE parse_amount_cleaned(StrStrip(StrReplace(StrReplace(s, "$", << >>), " ", << >>)))

---------------------------------------------------------------------------
(* models.Transaction                                                      *)

Str_Otros == <<"O", "t", "r", "o", "s">>

Str_ingreso == <<"i", "n", "g", "r", "e", "s", "o">>

Str_egreso == <<"e", "g", "r", "e", "s", "o">>

\* Transaction(date=, description=, amount=, type=), category left at its default
Transaction(date, description, amount, type) ==
    [t |-> "Transaction", date |-> date, description |-> description,
     amount |-> amount, type |-> type, category |-> PyStr(Str_Otros)]

---------------------------------------------------------------------------
(* TransactionExtractor._parse_date_banco_chile                            *)

current_year == 2025

\* the first of the values that is an exception, None when none is
RECURSIVE FirstRaise(_)
FirstRaise(values) ==
    IF values = << >> THEN None
    ELSE IF IsRaise(Head(values)) THEN Head(values)
    ELSE FirstRaise(Tail(values))

\* the mutant of resolve_year that takes every short year for one of this century
resolve_year_no_pivot(year) ==
    IF year < 100 THEN 2000 + year ELSE year

\* line 187
resolve_year(year) ==
    IF year < 100 THEN (IF year < 50 THEN 2000 + year ELSE 1900 + year) ELSE year

\* lines 178-188 with int() applied to the parts, in the order of the source
date_of_ints(ints, default_year) ==
    IF FirstRaise(ints) # None THEN FirstRaise(ints)
    ELSE IF Len(ints) = 2 THEN PyDate(default_year, ints[2].i, ints[1].i)
    ELSE PyDate(resolve_year(ints[3].i), ints[2].i, ints[1].i)

\* the body of the try block (lines 177-188); None when it falls through
parse_date_parts(parts, default_year) ==
    IF Len(parts) \in {2, 3}
    THEN date_of_ints([i \in 1..Len(parts) |-> PyIntStr(parts[i])], default_year)
    ELSE None

parse_date_try(date_str, default_year) ==
    parse_date_parts(StrSplit(date_str, "/"), default_year)

\* the mutant of _parse_date_banco_chile without its except clause
parse_date_no_except(date_str, default_year) ==
    IF date_str = << >> \/ date_str = Str_nan THEN None
    ELSE parse_date_try(StrStrip(date_str), default_year)

_parse_date_banco_chile(date_str, default_year) ==
    IF date_str = << >> \/ date_str = Str_nan THEN None
    ELSE Except(parse_date_try(StrStrip(date_str), default_year), None)

---------------------------------------------------------------------------
(* TransactionExtractor._extract_from_text_banco_chile                     *)

TextHeaderWords == <<<<"D", "E", "T", "A", "L", "L", "E", " ", "D", "E", " ", "T", "R", "A", "N", "S", "A", "C", "C", "I", "O", "N">>,
      <<"S", "U", "C", "U", "R", "S", "A", "L">>,
      <<"M", "O", "N", "T", "O", " ", "C", "H", "E", "Q", "U", "E", "S">>>>

TextKeywords == <<<<"P", "A", "G", "O", ":">>,
      <<"T", "R", "A", "N", "S", "F", "E", "R", "E", "N", "C", "I", "A">>,
      <<"T", "R", "A", "S", "P", "A", "S", "O">>,
      <<"A", "B", "O", "N", "O">>,
      <<"A", "V", "A", "N", "C", "E">>,
      <<"A", "M", "O", "R", "T", "I", "Z", "A", "C", "I", "O", "N">>,
      <<"P", "R", "I", "M", "A">>,
      <<"I", "M", "P", "U", "E", "S", "T", "O">>,
      <<"I", "N", "T", "E", "R", "E", "S", "E", "S">>,
      <<"G", "I", "R", "O">>>>

TextIncomeWords == <<<<"T", "R", "A", "N", "S", "F", "E", "R", "E", "N", "C", "I", "A", " ", "D", "E", "S", "D", "E">>,
      <<"T", "R", "A", "S", "P", "A", "S", "O", " ", "D", "E", ":">>,
      <<"A", "B", "O", "N", "O">>>>

SucursalCodes == {<<"C", "E", "N", "T", "R", "A", "L">>,
      <<"N", "T", "R", "A", "L">>,
      <<"E", "R", "N", "E", "T">>,
      <<"I", "N", "T", "E", "R", "N", "E", "T">>}

\* the mutant of first_positive that takes the last amount > 0 of the window
first_positive_last(amount, later) == IF FloatGtZero(later) THEN later ELSE amount

\* lines 262-271 for one following line: its amount when that is > 0, else
\* the amount found further on
first_positive(amount, later) == IF FloatGtZero(amount) THEN amount ELSE later

\* the look-ahead of lines 253-271 from line j to line last: the first amount > 0
RECURSIVE text_lookahead(_, _, _)
text_lookahead(lines, j, last) ==
    IF j > last THEN Zero
    ELSE IF StrStrip(lines[j]) \in SucursalCodes THEN text_lookahead(lines, j + 1, last)
    ELSE first_positive(_parse_amount(StrStrip(lines[j])),
                        text_lookahead(lines, j + 1, last))

\* the mutant of text_transaction that keeps the whole line as description
text_transaction_whole(descripcion, cargo, abono) ==
    IF FloatGtZero(cargo)
    THEN <<Transaction(PyDate(current_year, 12, 1), PyStr(descripcion),
                       cargo, PyStr(Str_egreso))>>
    ELSE IF FloatGtZero(abono)
    THEN <<Transaction(PyDate(current_year, 12, 1), PyStr(descripcion),
                       abono, PyStr(Str_ingreso))>>
    ELSE << >>

\* lines 274-287: the transaction built from a description and its amounts
text_transaction(descripcion, cargo, abono) ==
    IF FloatGtZero(cargo)
    THEN <<Transaction(PyDate(current_year, 12, 1), PyStr(StrPrefix(descripcion, 100)),
                       cargo, PyStr(Str_egreso))>>
    ELSE IF FloatGtZero(abono)
    THEN <<Transaction(PyDate(current_year, 12, 1), PyStr(StrPrefix(descripcion, 100)),
                       abono, PyStr(Str_ingreso))>>
    ELSE << >>

\* the mutant of text_amounts that books every amount as a cargo
text_amounts_cargo(descripcion, amount, income) ==
    text_transaction(descripcion, amount, Zero)

\* lines 264-268: the amount is an abono for an incoming movement, else a cargo
text_amounts(descripcion, amount, income) ==
    text_transaction(descripcion,
                     IF income THEN Zero ELSE amount,
                     IF income THEN amount ELSE Zero)

\* lines 238-287 for the stripped line at position i
text_stripped_line(lines, i, line) ==
    IF line = << >> \/ ContainsAny(line, TextHeaderWords) THEN << >>
    ELSE IF ~ContainsAny(line, TextKeywords) THEN << >>
    ELSE text_amounts(line,
                      text_lookahead(lines, i + 1,
                                     IF i + 5 < Len(lines) THEN i + 5 ELSE Len(lines)),
                      ContainsAny(line, TextIncomeWords))

\* one turn of the while loop (lines 236-289) at line i: what it appends
text_line(lines, i) == text_stripped_line(lines, i, StrStrip(lines[i]))

RECURSIVE text_lines_from(_, _)
text_lines_from(lines, i) ==
    IF i > Len(lines) THEN << >>
    ELSE text_line(lines, i) \o text_lines_from(lines, i + 1)

_extract_from_text_banco_chile(text) ==
    text_lines_from(StrSplit(text, "\n"), 1)

\* lines 294-297
_extract_from_text(text) == _extract_from_text_banco_chile(text)

---------------------------------------------------------------------------
(* class TransactionExtractor: the methods it defines (lines 7-297)        *)

ExtractorMethods ==
    {"__init__", "extract_transactions", "_extract_from_tables_pandas",
     "_find_header_row", "_find_column", "_parse_date_banco_chile",
     "_parse_amount", "_extract_from_text_banco_chile", "_extract_from_text"}

\* self.extractor.<name>: an AttributeError for a name the class does not define
extractor_getattr(name) ==
    IF name \in ExtractorMethods THEN name ELSE Raise("AttributeError")

---------------------------------------------------------------------------
(* TransactionExtractor._extract_from_tables_pandas                        *)
(*                                                                         *)
(* A table is the sequence of its rows, a row the sequence of its cells,   *)
(* every cell a str: PDFParser.extract_content has replaced None by ''     *)
(* (pdf_parser.py line 36) and pdfplumber gives every row of a table the   *)
(* same number of cells.  A DataFrame is the record of its column labels   *)
(* and its rows; a column is named by its position among the labels.       *)

HeaderKeywords == <<<<"d", "e", "t", "a", "l", "l", "e">>,
      <<"c", "a", "r", "g", "o">>,
      <<"a", "b", "o", "n", "o">>,
      <<"d", "i", "a", "/", "m", "e", "s">>,
      <<"f", "e", "c", "h", "a">>>>

FechaKeywords == <<<<"f", "e", "c", "h", "a">>,
      <<"d", "i", "a">>,
      <<"d", "i", "a", "/", "m", "e", "s">>>>

DetalleKeywords == <<<<"d", "e", "t", "a", "l", "l", "e">>,
      <<"d", "e", "s", "c", "r", "i", "p", "c", "i", "o", "n">>,
      <<"t", "r", "a", "n", "s", "a", "c", "c", "i", "o", "n">>>>

CargoKeywords == <<<<"c", "a", "r", "g", "o">>,
      <<"c", "h", "e", "q", "u", "e", "s">>,
      <<"d", "e", "b", "i", "t", "o">>,
      <<"m", "o", "n", "t", "o", " ", "c", "h", "e", "q", "u", "e", "s">>>>

AbonoKeywords == <<<<"a", "b", "o", "n", "o">>,
      <<"d", "e", "p", "o", "s", "i", "t", "o">>,
      <<"c", "r", "e", "d", "i", "t", "o">>,
      <<"m", "o", "n", "t", "o", " ", "d", "e", "p", "o", "s", "i", "t", "o", "s">>>>

SummaryWords == <<<<"t", "o", "t", "a", "l">>,
      <<"s", "a", "l", "d", "o", " ", "f", "i", "n", "a", "l">>,
      <<"s", "a", "l", "d", "o", " ", "a", "n", "t", "e", "r", "i", "o", "r">>,
      <<"r", "e", "t", "e", "n", "c", "i", "o", "n">>>>

GenericColumns == <<<<"F", "E", "C", "H", "A">>,
      <<"D", "E", "T", "A", "L", "L", "E">>,
      <<"S", "U", "C", "U", "R", "S", "A", "L">>,
      <<"N", "D", "O", "C">>,
      <<"C", "A", "R", "G", "O">>,
      <<"A", "B", "O", "N", "O">>,
      <<"S", "A", "L", "D", "O">>>>

\* ' '.join([str(cell).lower() for cell in row if cell])
RECURSIVE row_text(_)
row_text(row) ==
    IF row = << >> THEN << >>
    ELSE LET rest == row_text(Tail(row))
         IN  IF Head(row) = << >> THEN rest
             ELSE IF \A k \in 1..Len(Tail(row)) : Tail(row)[k] = << >>
                  THEN StrLower(Head(row))
                  ELSE StrLower(Head(row)) \o <<" ">> \o rest

\* the index of the first row holding a header keyword; 0 is Python's None
_find_header_row(rows) ==
    IF \E i \in 1..Len(rows) : ContainsAny(row_text(rows[i]), HeaderKeywords)
    THEN CHOOSE i \in 1..Len(rows) :
            /\ ContainsAny(row_text(rows[i]), HeaderKeywords)
            /\ \A j \in 1..(i - 1) : ~ContainsAny(row_text(rows[j]), HeaderKeywords)
    ELSE 0

\* the first column whose label holds a keyword; 0 is Python's None
_find_column(columns, keywords) ==
    LET hit(c) == ContainsAny(StrStrip(StrLower(columns[c])), keywords)
    IN  IF \E c \in 1..Len(columns) : hit(c)
        THEN CHOOSE c \in 1..Len(columns) : hit(c) /\ \A b \in 1..(c - 1) : ~hit(b)
        ELSE 0

\* the mutant of row_transactions that takes the abono only without a cargo
row_transactions_elif(fecha, descripcion, cargo, abono) ==
    IF fecha = None THEN << >>
    ELSE IF descripcion = << >> \/ descripcion = Str_nan THEN << >>
    ELSE IF FloatGtZero(cargo)
    THEN <<Transaction(fecha, PyStr(descripcion), cargo, PyStr(Str_egreso))>>
    ELSE IF FloatGtZero(abono)
    THEN <<Transaction(fecha, PyStr(descripcion), abono, PyStr(Str_ingreso))>>
    ELSE << >>

\* lines 125-143: the transactions of a row whose fields are parsed
row_transactions(fecha, descripcion, cargo, abono) ==
    IF fecha = None THEN << >>
    ELSE IF descripcion = << >> \/ descripcion = Str_nan THEN << >>
    ELSE (IF FloatGtZero(cargo)
          THEN <<Transaction(fecha, PyStr(descripcion), cargo, PyStr(Str_egreso))>>
          ELSE << >>)
         \o (IF FloatGtZero(abono)
             THEN <<Transaction(fecha, PyStr(descripcion), abono, PyStr(Str_ingreso))>>
             ELSE << >>)

\* the label of column col stands over another column too: row[label] is
\* then a Series of the cells under that label, not one cell
Duplicated(columns, col) ==
    \E c \in 1..Len(columns) : c # col /\ columns[c] = columns[col]

\* lines 112-122: the amount of a cargo or abono cell, 0 without the column;
\* the truth value of a Series is a ValueError
cell_amount(columns, row, col) ==
    IF col = 0 THEN Zero
    ELSE IF Duplicated(columns, col) THEN Raise("ValueError")
    ELSE IF row[col] # << >> THEN _parse_amount(row[col]) ELSE Zero

\* lines 119-143 with the two cells read: an exception of either leaves the
\* try for the except of line 145, which goes on to the next row
row_amounts(fecha, descripcion, cargo, abono) ==
    IF IsRaise(cargo) \/ IsRaise(abono) THEN << >>
    ELSE row_transactions(fecha, descripcion, cargo, abono)

\* lines 119-143 for a row with a date and a description
row_cells(columns, row, fecha, descripcion, cargo_col, abono_col) ==
    IF fecha = None THEN << >>
    ELSE IF descripcion = << >> \/ descripcion = Str_nan THEN << >>
    ELSE row_amounts(fecha, descripcion,
                     cell_amount(columns, row, cargo_col),
                     cell_amount(columns, row, abono_col))

\* the body of the per-row try (lines 97-143): what the row appends; the text
\* of a Series under a duplicated fecha label is never a date (the text of a
\* Series under a duplicated detalle label is not modelled: no table of this
\* model repeats that label)
table_row(columns, row, fecha_col, detalle_col, cargo_col, abono_col) ==
    IF Duplicated(columns, fecha_col) THEN << >>
    ELSE IF StrStrip(row[fecha_col]) = << >> THEN << >>
    ELSE IF ContainsAny(StrLower(row[detalle_col]), SummaryWords) THEN << >>
    ELSE row_cells(columns, row,
                   _parse_date_banco_chile(StrStrip(row[fecha_col]), current_year),
                   StrStrip(row[detalle_col]), cargo_col, abono_col)

RECURSIVE table_rows(_, _, _, _, _, _)
table_rows(columns, rows, fecha_col, detalle_col, cargo_col, abono_col) ==
    IF rows = << >> THEN << >>
    ELSE table_row(columns, Head(rows), fecha_col, detalle_col, cargo_col, abono_col)
         \o table_rows(columns, Tail(rows), fecha_col, detalle_col, cargo_col, abono_col)

\* lines 92-147 with the four columns found
frame_rows(columns, rows, fecha_col, detalle_col, cargo_col, abono_col) ==
    IF fecha_col = 0 \/ detalle_col = 0 THEN << >>
    ELSE table_rows(columns, rows, fecha_col, detalle_col, cargo_col, abono_col)

\* lines 84-147 for one DataFrame: the transactions of its rows
frame_transactions(columns, rows) ==
    frame_rows(columns, rows,
               _find_column(columns, FechaKeywords),
               _find_column(columns, DetalleKeywords),
               _find_column(columns, CargoKeywords),
               _find_column(columns, AbonoKeywords))

\* lines 60-147 with the header row looked up
framed_table(table_data, header_idx, ncols) ==
    IF header_idx # 0
    THEN PyList(frame_transactions(table_data[header_idx],
                    SubSeq(table_data, header_idx + 1, Len(table_data))))
    ELSE IF ncols >= 6
    THEN IF Len(StrPrefix(GenericColumns, ncols)) # ncols
         THEN Raise("ValueError")
         ELSE PyList(frame_transactions(StrPrefix(GenericColumns, ncols), table_data))
    ELSE PyList(<< >>)

\* one turn of the loop over tables_data (lines 51-147): the list of the
\* transactions the table appends, or the exception that leaves the loop
table_transactions(table_data) ==
    IF Len(table_data) < 2 THEN PyList(<< >>)
    ELSE framed_table(table_data, _find_header_row(table_data), Len(table_data[1]))

\* the mutant of extend_transactions that keeps the last table only
extend_transactions_last(all_transactions, r) == r

\* all_transactions behind one more table, or the exception that table raised
extend_transactions(all_transactions, r) ==
    IF IsRaise(r) THEN r ELSE PyList(all_transactions.v \o r.v)

\* the loop over tables_data: all_transactions at its end, or the exception
RECURSIVE tables_from(_, _)
tables_from(tables_data, all_transactions) ==
    IF tables_data = << >> \/ IsRaise(all_transactions) THEN all_transactions
    ELSE tables_from(Tail(tables_data),
                     extend_transactions(all_transactions,
                                         table_transactions(Head(tables_data).data)))

_extract_from_tables_pandas(tables_data) == tables_from(tables_data, PyList(<< >>))

---------------------------------------------------------------------------
(* config.CATEGORIES and Categorizer.categorize                            *)

\* the dict in its declaration order
CATEGORIES ==
    <<
     [category |-> <<"A", "l", "i", "m", "e", "n", "t", "a", "c", "i", "ó", "n">>,
      keywords |->
        <<<<"s", "u", "p", "e", "r", "m", "e", "r", "c", "a", "d", "o">>,
          <<"m", "e", "r", "c", "a", "d", "o">>,
          <<"c", "o", "m", "i", "d", "a">>,
          <<"m", "a", "r", "k", "e", "t">>,
          <<"f", "r", "u", "t", "e", "r", "i", "a">>>>],
     [category |-> <<"T", "r", "a", "n", "s", "p", "o", "r", "t", "e">>,
      keywords |->
        <<<<"u", "b", "e", "r">>,
          <<"c", "a", "b", "i", "f", "y">>,
          <<"g", "a", "s", "o", "l", "i", "n", "e", "r", "a">>,
          <<"p", "e", "a", "j", "e">>,
          <<"m", "e", "t", "r", "o">>,
          <<"b", "u", "s">>>>],
     [category |-> <<"V", "i", "v", "i", "e", "n", "d", "a">>,
      keywords |->
        <<<<"a", "l", "q", "u", "i", "l", "e", "r">>,
          <<"h", "i", "p", "o", "t", "e", "c", "a">>,
          <<"m", "a", "n", "t", "e", "n", "i", "m", "i", "e", "n", "t", "o">>,
          <<"l", "u", "z">>,
          <<"a", "g", "u", "a">>,
          <<"g", "a", "s">>>>],
     [category |-> <<"S", "e", "r", "v", "i", "c", "i", "o", "s", " ", "b", "á", "s", "i", "c", "o", "s">>,
      keywords |->
        <<<<"i", "n", "t", "e", "r", "n", "e", "t">>,
          <<"t", "e", "l", "e", "f", "o", "n", "o">>,
          <<"c", "l", "a", "r", "o">>,
          <<"m", "o", "v", "i", "s", "t", "a", "r">>,
          <<"e", "n", "t", "e", "l">>>>],
     [category |-> <<"S", "a", "l", "u", "d">>,
      keywords |->
        <<<<"f", "a", "r", "m", "a", "c", "i", "a">>,
          <<"m", "e", "d", "i", "c", "o">>,
          <<"h", "o", "s", "p", "i", "t", "a", "l">>,
          <<"c", "l", "i", "n", "i", "c", "a">>,
          <<"d", "o", "c", "t", "o", "r">>>>],
     [category |-> <<"E", "d", "u", "c", "a", "c", "i", "ó", "n">>,
      keywords |->
        <<<<"u", "n", "i", "v", "e", "r", "s", "i", "d", "a", "d">>,
          <<"c", "u", "r", "s", "o">>,
          <<"c", "o", "l", "e", "g", "i", "o">>,
          <<"u", "d", "e", "m", "y">>,
          <<"p", "l", "a", "t", "z", "i">>>>],
     [category |-> <<"E", "n", "t", "r", "e", "t", "e", "n", "i", "m", "i", "e", "n", "t", "o">>,
      keywords |->
        <<<<"c", "i", "n", "e">>,
          <<"n", "e", "t", "f", "l", "i", "x">>,
          <<"s", "p", "o", "t", "i", "f", "y">>,
          <<"j", "u", "e", "g", "o">>,
          <<"s", "t", "e", "a", "m">>>>],
     [category |-> <<"C", "o", "m", "p", "r", "a", "s">>,
      keywords |->
        <<<<"a", "m", "a", "z", "o", "n">>,
          <<"m", "e", "r", "c", "a", "d", "o", "l", "i", "b", "r", "e">>,
          <<"f", "a", "l", "a", "b", "e", "l", "l", "a">>,
          <<"r", "i", "p", "l", "e", "y">>,
          <<"z", "a", "r", "a">>>>],
     [category |-> <<"S", "u", "s", "c", "r", "i", "p", "c", "i", "o", "n", "e", "s">>,
      keywords |->
        <<<<"p", "r", "i", "m", "e">>,
          <<"h", "b", "o">>,
          <<"d", "i", "s", "n", "e", "y">>,
          <<"a", "p", "p", "l", "e">>>>],
     [category |-> <<"R", "e", "s", "t", "a", "u", "r", "a", "n", "t", "e", "s">>,
      keywords |->
        <<<<"r", "e", "s", "t", "a", "u", "r", "a", "n", "t", "e">>,
          <<"d", "o", "m", "i", "n", "o", "s">>,
          <<"s", "t", "a", "r", "b", "u", "c", "k", "s">>,
          <<"m", "c", "d", "o", "n", "a", "l", "d", "s">>,
          <<"b", "u", "r", "g", "e", "r">>>>],
     [category |-> <<"T", "r", "a", "n", "s", "f", "e", "r", "e", "n", "c", "i", "a", "s">>,
      keywords |->
        <<<<"t", "r", "a", "n", "s", "f", "e", "r", "e", "n", "c", "i", "a">>,
          <<"t", "r", "a", "s", "p", "a", "s", "o">>>>],
     [category |-> <<"I", "m", "p", "u", "e", "s", "t", "o", "s", " ", "y", " ", "c", "o", "m", "i", "s", "i", "o", "n", "e", "s">>,
      keywords |->
        <<<<"c", "o", "m", "i", "s", "i", "o", "n">>,
          <<"i", "m", "p", "u", "e", "s", "t", "o">>,
          <<"i", "v", "a">>,
          <<"i", "n", "t", "e", "r", "e", "s">>>>],
     [category |-> <<"I", "n", "g", "r", "e", "s", "o", "s">>,
      keywords |->
        <<<<"s", "u", "e", "l", "d", "o">>,
          <<"s", "a", "l", "a", "r", "i", "o">>,
          <<"d", "e", "p", "o", "s", "i", "t", "o">>,
          <<"a", "b", "o", "n", "o">>>>],
     [category |-> <<"O", "t", "r", "o", "s">>,
      keywords |->
        << >>]
    >>

\* the mutant of categorize_from that lets a later entry of CATEGORIES win
RECURSIVE categorize_last_from(_, _)
categorize_last_from(desc_lower, k) ==
    IF k > Len(CATEGORIES) THEN PyStr(Str_Otros)
    ELSE IF categorize_last_from(desc_lower, k + 1) # PyStr(Str_Otros)
    THEN categorize_last_from(desc_lower, k + 1)
    ELSE IF ContainsAny(desc_lower, CATEGORIES[k].keywords) THEN PyStr(CATEGORIES[k].category)
    ELSE PyStr(Str_Otros)

\* the loop of lines 13-16 from entry k on: the first category with a keyword
\* in desc_lower, 'Otros' behind the last entry
RECURSIVE categorize_from(_, _)
categorize_from(desc_lower, k) ==
    IF k > Len(CATEGORIES) THEN PyStr(Str_Otros)
    ELSE IF ContainsAny(desc_lower, CATEGORIES[k].keywords) THEN PyStr(CATEGORIES[k].category)
    ELSE categorize_from(desc_lower, k + 1)

\* categorize(description, amount): description.lower() is an AttributeError
\* for a description that is no str
categorize(description, amount) ==
    IF ~IsStr(description) THEN Raise("AttributeError")
    ELSE categorize_from(StrLower(description.v), 1)

---------------------------------------------------------------------------
(* The model's reply and json.loads.                                       *)
(*                                                                         *)
(* The reply text is a sequence of tokens: the brackets and the comma of   *)
(* the JSON array, words of prose (a markdown fence, a sentence), and JSON *)
(* values.  A JSON object is one token: the record of its four keys, a key *)
(* the object lacks being Missing.                                         *)

LBracket == [t |-> "punct", c |-> "["]

RBracket == [t |-> "punct", c |-> "]"]

Comma == [t |-> "punct", c |-> ","]

Prose == [t |-> "prose"]

Missing == [t |-> "missing"]

JObject(fecha, descripcion, monto, tipo) ==
    [t |-> "dict", fecha |-> fecha, descripcion |-> descripcion,
     monto |-> monto, tipo |-> tipo]

IsJsonValue(tok) == tok.t \in {"dict", "str", "float", "bool", "none"}

ParseOk(val, next) == [t |-> "parsed", val |-> val, next |-> next]

\* one JSON value starting at toks[i]: the value and the index behind it
RECURSIVE ParseValue(_, _)
RECURSIVE ParseItems(_, _, _)
ParseValue(toks, i) ==
    IF i > Len(toks) THEN Raise("JSONDecodeError")
    ELSE IF IsJsonValue(toks[i]) THEN ParseOk(toks[i], i + 1)
    ELSE IF toks[i] = LBracket
         THEN IF i + 1 <= Len(toks) /\ toks[i + 1] = RBracket
              THEN ParseOk(PyList(<< >>), i + 2)
              ELSE ParseItems(toks, i + 1, << >>)
    ELSE Raise("JSONDecodeError")

ParseItems(toks, i, acc) ==
    LET r == ParseValue(toks, i)
    IN  IF IsRaise(r) THEN r
        ELSE IF r.next > Len(toks) THEN Raise("JSONDecodeError")
        ELSE IF toks[r.next] = Comma THEN ParseItems(toks, r.next + 1, Append(acc, r.val))
        ELSE IF toks[r.next] = RBracket THEN ParseOk(PyList(Append(acc, r.val)), r.next + 1)
        ELSE Raise("JSONDecodeError")

\* json.loads(json_str): the value, or JSONDecodeError (also for trailing data)
json_loads(toks) ==
    LET r == ParseValue(toks, 1)
    IN  IF IsRaise(r) THEN r
        ELSE IF r.next # Len(toks) + 1 THEN Raise("JSONDecodeError")
        ELSE r.val

\* result_text.find(tok) and result_text.rfind(tok), counted from 1; 0 is Python's -1
Find(toks, tok) ==
    IF \E i \in 1..Len(toks) : toks[i] = tok
    THEN CHOOSE i \in 1..Len(toks) : toks[i] = tok /\ \A j \in 1..(i - 1) : toks[j] # tok
    ELSE 0

RFind(toks, tok) ==
    IF \E i \in 1..Len(toks) : toks[i] = tok
    THEN CHOOSE i \in 1..Len(toks) : toks[i] = tok /\ \A j \in (i + 1)..Len(toks) : toks[j] # tok
    ELSE 0

---------------------------------------------------------------------------
(* AIParser.parse_transactions                                             *)

\* the value found under a key, or the KeyError of a key the dict lacks
Lookup(v) == IF v = Missing THEN Raise("KeyError") ELSE v

\* t[key]
GetItem(t, key) ==
    IF t.t # "dict" THEN Raise("TypeError")
    ELSE Lookup(CASE key = "fecha" -> t.fecha
                  [] key = "descripcion" -> t.descripcion
                  [] key = "monto" -> t.monto
                  [] key = "tipo" -> t.tipo)

\* float(x) for a decoded JSON value
PyFloat(x) ==
    IF IsRaise(x) THEN x
    ELSE IF x.t = "float" THEN x
    ELSE IF x.t = "bool" THEN Float(IF x.b THEN 1 ELSE 0, 0)
    ELSE IF x.t = "str" THEN PyFloatStr(StrStrip(x.v))
    ELSE Raise("TypeError")

\* date(y, m, d) of line 63 for the three int() results
date_of_ymd(y, m, d) ==
    IF IsRaise(y) THEN y
    ELSE IF IsRaise(m) THEN m
    ELSE IF IsRaise(d) THEN d
    ELSE PyDate(y.i, m.i, d.i)

\* int(date_parts[k - 1]): an IndexError when the part is not there
int_part(date_parts, k) ==
    IF Len(date_parts) < k THEN Raise("IndexError") ELSE PyIntStr(date_parts[k])

\* line 63
date_of_parts(date_parts) ==
    date_of_ymd(int_part(date_parts, 1), int_part(date_parts, 2), int_part(date_parts, 3))

\* t['fecha'].split('-') of line 62 and the date of line 63
fecha_to_date(fecha) ==
    IF IsRaise(fecha) THEN fecha
    ELSE IF ~IsStr(fecha) THEN Raise("AttributeError")
    ELSE date_of_parts(StrSplit(fecha.v, "-"))

\* lines 62-63
parse_fecha(t) == fecha_to_date(GetItem(t, "fecha"))

\* lines 65-70: the Transaction of the four values, or the first exception
transaction_of(trans_date, description, amount, type) ==
    IF IsRaise(trans_date) THEN trans_date
    ELSE IF IsRaise(description) THEN description
    ELSE IF IsRaise(amount) THEN amount
    ELSE IF IsRaise(type) THEN type
    ELSE Transaction(trans_date, description, amount, type)

\* the body of the inner try (lines 61-70): the Transaction, or the exception
element_to_transaction(t) ==
    transaction_of(parse_fecha(t), GetItem(t, "descripcion"),
                   PyFloat(GetItem(t, "monto")), GetItem(t, "tipo"))

\* lines 60-73 for one element: appended, or passed over when it raised
appended(r) == IF IsRaise(r) THEN << >> ELSE <<r>>

\* the loop of lines 58-73: an element whose conversion raises is passed over
RECURSIVE convert_elements(_)
convert_elements(transactions_data) ==
    IF transactions_data = << >> THEN << >>
    ELSE appended(element_to_transaction(Head(transactions_data)))
         \o convert_elements(Tail(transactions_data))

\* lines 57-76 for what json.loads gave
converted(transactions_data) ==
    IF IsRaise(transactions_data) THEN transactions_data
    ELSE PyList(convert_elements(transactions_data.v))

\* lines 47-76 with the two positions searched
parse_json_slice(result_text, json_start, json_end) ==
    IF json_start = 0 \/ json_end = 0
    THEN PyList(<< >>)
    ELSE converted(json_loads(SubSeq(result_text, json_start, json_end)))

\* lines 44-76 for the message content
parse_result_text(result_text) ==
    parse_json_slice(result_text, Find(result_text, LBracket), RFind(result_text, RBracket))

\* the body of the outer try (lines 28-76); outcome is what
\* client.chat.completions.create does: it raises, or its message content
parse_transactions_try(outcome) ==
    IF IsRaise(outcome) THEN outcome
    ELSE IF outcome = None THEN Raise("AttributeError")
    ELSE parse_result_text(outcome.toks)

\* the mutant of parse_transactions without the outer except clause
parse_transactions_no_except(outcome) == parse_transactions_try(outcome)

parse_transactions(outcome) == Except(parse_transactions_try(outcome), PyList(<< >>))

---------------------------------------------------------------------------
(* TransactionExtractor.extract_transactions                               *)
(*                                                                         *)
(* parsed_data is the dict of PDFParser.extract_content: text, a str, and  *)
(* tables, a sequence of [data |-> rows].  ai is what the AI collaborator  *)
(* does in this call: available is FALSE when `from ai_parser import       *)
(* AIParser` or AIParser() raises (no groq package, no GROQ_API_KEY),      *)
(* outcome is what the model call does otherwise.                          *)

\* the body of the try of lines 20-27
ai_step_try(text, ai) ==
    IF ai.available THEN parse_transactions(ai.outcome) ELSE Raise("ValueError")

\* the mutant of ai_step whose try has no except clause
ai_step_no_except(text, ai) ==
    IF text # << >> THEN ai_step_try(text, ai) ELSE PyList(<< >>)

\* lines 16-30: transactions behind strategy 1
ai_step(text, ai) ==
    IF text # << >> THEN Except(ai_step_try(text, ai), PyList(<< >>)) ELSE PyList(<< >>)

\* the mutant of text_step_guard that forgets `not transactions`
text_step_guard_always(transactions, text) == text # << >>

\* line 33
text_step_guard(transactions, text) == transactions = << >> /\ text # << >>

\* the mutant of table_step_guard that forgets `not transactions`
table_step_guard_always(transactions, tables) == tables # << >>

\* line 38
table_step_guard(transactions, tables) == transactions = << >> /\ tables # << >>

\* line 35
text_step(transactions, text) == _extract_from_text_banco_chile(text)

\* what extract_transactions has done: ret is the list returned or the
\* exception raised; calls tells which extractors were invoked; ai_out,
\* text_out and table_out are what each invoked extractor gave back (None for
\* one that was not invoked)
extraction(ai_called, s1, text_call, t2, table_call, r3) ==
    [ret |-> r3,
     calls |-> [ai |-> ai_called, text |-> text_call, table |-> table_call],
     ai_out |-> IF ai_called THEN s1 ELSE None,
     text_out |-> IF text_call THEN PyList(t2) ELSE None,
     table_out |-> IF table_call THEN r3 ELSE None]

\* lines 38-42
strategy_3(tables, ai_called, s1, text_call, t2, table_call) ==
    extraction(ai_called, s1, text_call, t2, table_call,
               IF table_call THEN _extract_from_tables_pandas(tables) ELSE PyList(t2))

\* line 38 behind strategy 2
after_strategy_2(tables, ai_called, s1, text_call, t2) ==
    strategy_3(tables, ai_called, s1, text_call, t2, table_step_guard(t2, tables))

\* lines 33-35
strategy_2(text, tables, ai_called, s1, text_call) ==
    after_strategy_2(tables, ai_called, s1, text_call,
                     IF text_call THEN text_step(s1.v, text) ELSE s1.v)

\* line 33 behind strategy 1; an exception that left strategy 1 leaves the call
after_strategy_1(text, tables, ai_called, s1) ==
    IF IsRaise(s1)
    THEN [ret |-> s1,
          calls |-> [ai |-> ai_called, text |-> FALSE, table |-> FALSE],
          ai_out |-> s1, text_out |-> None, table_out |-> None]
    ELSE strategy_2(text, tables, ai_called, s1, text_step_guard(s1.v, text))

extract_transactions(parsed_data, ai) ==
    after_strategy_1(parsed_data.text, parsed_data.tables,
                     parsed_data.text # << >> /\ ai.available,
                     ai_step(parsed_data.text, ai))

---------------------------------------------------------------------------
(* FinancialBot.process_file                                               *)

Statement(period, transactions, total_income, total_expense) ==
    [t |-> "Statement", period |-> period, transactions |-> transactions,
     total_income |-> total_income, total_expense |-> total_expense]

\* lines 82-86 for transaction tr with its category looked up: the classified
\* transactions and the two totals, or the exception categorize raised
classified(done, total_income, total_expense, tr, category) ==
    IF IsRaise(category) THEN category
    ELSE [t |-> "totals",
          transactions |-> Append(done, [tr EXCEPT !.category = category]),
          total_income |-> IF tr.type = PyStr(Str_ingreso)
                           THEN FloatAdd(total_income, tr.amount) ELSE total_income,
          total_expense |-> IF tr.type = PyStr(Str_ingreso)
                            THEN total_expense ELSE FloatAdd(total_expense, tr.amount)]

\* the loop of lines 81-86 from transaction i on, acc holding the classified
\* transactions and the totals so far
RECURSIVE classify_from(_, _, _)
classify_from(transactions, i, acc) ==
    IF i > Len(transactions) \/ IsRaise(acc) THEN acc
    ELSE classify_from(transactions, i + 1,
                       classified(acc.transactions, acc.total_income, acc.total_expense,
                                  transactions[i],
                                  categorize(transactions[i].description,
                                             transactions[i].amount)))

JsonFile(filepath) == [path |-> filepath, kind |-> "processed.json"]

CsvFile(filepath) == [path |-> filepath, kind |-> "transactions.csv"]

\* save_csv (lines 141-175): t.type.upper() is an AttributeError for a type
\* that is no str; the file has been opened for writing by then
save_csv_raises(transactions) ==
    \E i \in 1..Len(transactions) : ~IsStr(transactions[i].type)

\* what process_file has done: result is the value returned (PyBool) or the
\* exception raised, written the files of outputs/ written, ex the record of
\* extract_transactions and statement the Statement built (None when the call
\* did not get there)
file_outcome(result, written, ex, statement) ==
    [result |-> result, written |-> written, ex |-> ex, statement |-> statement]

\* lines 97-107
save_step(filepath, ex, stmt) ==
    file_outcome(IF save_csv_raises(stmt.transactions)
                 THEN Raise("AttributeError") ELSE PyBool(TRUE),
                 {JsonFile(filepath), CsvFile(filepath)}, ex, stmt)

\* lines 88-95
statement_step(filepath, ex, c) ==
    IF IsRaise(c) THEN file_outcome(c, {}, ex, None)
    ELSE save_step(filepath, ex,
                   Statement("today", c.transactions, c.total_income, c.total_expense))

\* lines 76-86
categorize_step(filepath, ex) ==
    IF IsRaise(ex.ret) THEN file_outcome(ex.ret, {}, ex, None)
    ELSE statement_step(filepath, ex,
                        classify_from(ex.ret.v, 1,
                                      [t |-> "totals", transactions |-> << >>,
                                       total_income |-> Zero, total_expense |-> Zero]))

\* parsed_data is what self.parser.extract_content(filepath) returned
process_file(filepath, parsed_data, ai) ==
    IF parsed_data = None THEN file_outcome(PyBool(FALSE), {}, None, None)
    ELSE categorize_step(filepath, extract_transactions(parsed_data, ai))

---------------------------------------------------------------------------
(* The amount normalizer on its own: every str of at most MaxAmountLen     *)
(* characters of AmountChars, and the strings the source names.            *)

AmountChars == {"0", "1", "5", ".", ",", "-", "$", " ", "a"}

Str_1_234_567_89 == <<"1", ".", "2", "3", "4", ".", "5", "6", "7", ",", "8", "9">>

Str_1_234_567 == <<"1", ".", "2", "3", "4", ".", "5", "6", "7">>

Str_150_000 == <<"$", " ", "1", "5", "0", ".", "0", "0", "0">>

Str_minus_5_000 == <<"-", "5", ".", "0", "0", "0">>

AmountStrings ==
    SeqsUpTo(AmountChars, MaxAmountLen)
        \cup {Str_nan, Str_None, Str_none, Str_NULL,
              Str_1_234_567_89, Str_1_234_567, Str_150_000, Str_minus_5_000}

AmountIdle ==
    amount_str = << >> /\ amount_pc = "idle" /\ amount_ret = None /\ amount_again = None

AIIdle == ai_outcome = None /\ ai_pc = "idle" /\ ai_ret = None

FnIdle == fn_args = None /\ fn_pc = "idle" /\ fn_ret = None

RunIdle ==
    /\ run_pc = "off" /\ runs = 0 /\ seen = 0
    /\ processed_files = {} /\ tracking_file = {}
    /\ processed_count = 0 /\ skipped_count = 0
    /\ outputs = {} /\ last_file = None

InitAmount ==
    /\ amount_str \in AmountStrings
    /\ amount_pc = "call"
    /\ amount_ret = None
    /\ amount_again = None
    /\ AIIdle
    /\ RunIdle
    /\ FnIdle

ParseAmount ==
    /\ amount_pc = "call"
    /\ LET r == _parse_amount(amount_str)
       IN  /\ amount_pc' = IF IsRaise(r) THEN "raised" ELSE "returned"
           /\ amount_ret' = r
    /\ UNCHANGED <<amount_str, amount_again, aiVars, runVars, fnVars>>

\* the value returned is written out with str() and parsed again
ReparseAmount ==
    /\ amount_pc = "returned"
    /\ amount_again' = _parse_amount(PyStrFloat(amount_ret))
    /\ amount_pc' = "reparsed"
    /\ UNCHANGED <<amount_str, amount_ret, aiVars, runVars, fnVars>>

NextAmount == ParseAmount \/ ReparseAmount

SpecAmount == InitAmount /\ [][NextAmount]_vars

---------------------------------------------------------------------------
(* The AI parser on its own: the model call raises, answers with no        *)
(* content, or answers with a text: every text of at most MaxRespLen       *)
(* tokens of RespTokens, and every array of at most MaxElems elements of   *)
(* Elements, bare or with prose before and behind it.                      *)

Str_2025_01_15 == <<"2", "0", "2", "5", "-", "0", "1", "-", "1", "5">>

Str_2025_02_03 == <<"2", "0", "2", "5", "-", "0", "2", "-", "0", "3">>

Str_2025_13_01 == <<"2", "0", "2", "5", "-", "1", "3", "-", "0", "1">>

Str_2025_02_30 == <<"2", "0", "2", "5", "-", "0", "2", "-", "3", "0">>

Str_15_01 == <<"1", "5", "/", "0", "1">>

Str_2025_01 == <<"2", "0", "2", "5", "-", "0", "1">>

Str_2025_01_15_99 == Str_2025_01_15 \o <<"-", "9", "9">>

Str_PAGO == <<"P", "A", "G", "O", ":", "L", "I", "D", "E", "R">>

Str_SUELDO == <<"A", "B", "O", "N", "O", " ", "S", "U", "E", "L", "D", "O">>

Str_5000 == <<"5", "0", "0", "0">>

Str_abc == <<"a", "b", "c">>

Str_gasto == <<"g", "a", "s", "t", "o">>

E_pago == JObject(PyStr(Str_2025_01_15), PyStr(Str_PAGO), Float(5000, 0), PyStr(Str_egreso))

E_sueldo == JObject(PyStr(Str_2025_02_03), PyStr(Str_SUELDO), Float(150000, 0), PyStr(Str_ingreso))

E_monto_str == [E_pago EXCEPT !.monto = PyStr(Str_5000)]

E_no_fecha == [E_pago EXCEPT !.fecha = Missing]

E_no_descripcion == [E_pago EXCEPT !.descripcion = Missing]

E_no_monto == [E_pago EXCEPT !.monto = Missing]

E_no_tipo == [E_pago EXCEPT !.tipo = Missing]

E_fecha_slash == [E_pago EXCEPT !.fecha = PyStr(Str_15_01)]

E_fecha_short == [E_pago EXCEPT !.fecha = PyStr(Str_2025_01)]

E_fecha_month13 == [E_pago EXCEPT !.fecha = PyStr(Str_2025_13_01)]

E_fecha_feb30 == [E_pago EXCEPT !.fecha = PyStr(Str_2025_02_30)]

E_fecha_number == [E_pago EXCEPT !.fecha = Float(20250115, 0)]

E_fecha_trailing == [E_pago EXCEPT !.fecha = PyStr(Str_2025_01_15_99)]

E_monto_abc == [E_pago EXCEPT !.monto = PyStr(Str_abc)]

E_monto_null == [E_pago EXCEPT !.monto = None]

E_monto_true == [E_pago EXCEPT !.monto = PyBool(TRUE)]

E_monto_negative == [E_pago EXCEPT !.monto = Float(-5000, 0)]

E_tipo_gasto == [E_pago EXCEPT !.tipo = PyStr(Str_gasto)]

E_descripcion_null == [E_pago EXCEPT !.descripcion = None]

E_number == Float(7, 0)

E_string == PyStr(Str_abc)

Elements ==
    {E_pago, E_sueldo, E_monto_str,
     E_no_fecha, E_no_descripcion, E_no_monto, E_no_tipo,
     E_fecha_slash, E_fecha_short, E_fecha_month13, E_fecha_feb30, E_fecha_number,
     E_fecha_trailing, E_monto_abc, E_monto_null, E_monto_true, E_monto_negative,
     E_tipo_gasto, E_descripcion_null, E_number, E_string, None}

RespTokens == {LBracket, RBracket, Comma, Prose, E_pago, E_number}

RespText(toks) == [t |-> "text", toks |-> toks]

\* e1, e2, ..., en
RECURSIVE JoinComma(_)
JoinComma(elems) ==
    IF elems = << >> THEN << >>
    ELSE IF Len(elems) = 1 THEN elems
    ELSE <<Head(elems), Comma>> \o JoinComma(Tail(elems))

ArrayText(elems) == <<LBracket>> \o JoinComma(elems) \o <<RBracket>>

AIOutcomes ==
    {Raise("APIError"), None}
        \cup {RespText(toks) : toks \in SeqsUpTo(RespTokens, MaxRespLen)}
        \cup {RespText(pre \o ArrayText(elems) \o post) :
                 pre \in {<< >>, <<Prose>>}, post \in {<< >>, <<Prose>>},
                 elems \in SeqsUpTo(Elements, MaxElems)}

InitAI ==
    /\ ai_outcome \in AIOutcomes
    /\ ai_pc = "call"
    /\ ai_ret = None
    /\ AmountIdle
    /\ RunIdle
    /\ FnIdle

AIParse ==
    /\ ai_pc = "call"
    /\ LET r == parse_transactions(ai_outcome)
       IN  /\ ai_pc' = IF IsRaise(r) THEN "raised" ELSE "returned"
           /\ ai_ret' = r
    /\ UNCHANGED <<ai_outcome, amountVars, runVars, fnVars>>

NextAI == AIParse

SpecAI == InitAI /\ [][NextAI]_vars

---------------------------------------------------------------------------
(* The batch run: FinancialBot.run, FileTracker and the documents.         *)
(*                                                                         *)
(* A document is named by the hash of its bytes; Content gives the dict    *)
(* PDFParser.extract_content makes of it when it can be opened.            *)

Text_pago == <<"\n", "=", "=", "=", " ", "P", "A", "G", "E", " ", "1", " ", "=", "=", "=", "\n", "P", "A", "G", "O", ":", "L", "I", "D", "E", "R", "\n", "C", "E", "N", "T", "R", "A", "L", "\n", "5", ".", "0", "0", "0", "\n">>

Text_transferencia == <<"\n", "=", "=", "=", " ", "P", "A", "G", "E", " ", "1", " ", "=", "=", "=", "\n", "T", "R", "A", "N", "S", "F", "E", "R", "E", "N", "C", "I", "A", " ", "D", "E", "S", "D", "E", " ", "J", "u", "a", "n", "\n", "1", "5", "0", ".", "0", "0", "0", "\n">>

Text_portada == <<"\n", "=", "=", "=", " ", "P", "A", "G", "E", " ", "1", " ", "=", "=", "=", "\n", "C", "a", "r", "t", "o", "l", "a", "\n">>

Table_cartola ==
    <<<<<<"F", "E", "C", "H", "A">>, <<"D", "E", "T", "A", "L", "L", "E">>, <<"S", "U", "C", "U", "R", "S", "A", "L">>, <<"N", "D", "O", "C">>, <<"C", "A", "R", "G", "O">>, <<"A", "B", "O", "N", "O">>, <<"S", "A", "L", "D", "O">>>>,
        <<<<"0", "1", "/", "0", "2", "/", "2", "0", "2", "4">>, <<"U", "b", "e", "r", " ", "T", "r", "i", "p">>, << >>, << >>, <<"5", "0", "0", "0">>, << >>, << >>>>,
        <<<<"0", "2", "/", "0", "2">>, <<"A", "j", "u", "s", "t", "e">>, << >>, << >>, <<"1", ".", "0", "0", "0">>, <<"2", ".", "0", "0", "0">>, << >>>>>>

Table_ancha ==
    <<<<<<"0", "1", "/", "0", "2">>, <<"U", "b", "e", "r">>, << >>, << >>, <<"5", "0", "0", "0">>, << >>, << >>, <<"x">>>>,
        <<<<"0", "2", "/", "0", "2">>, <<"M", "e", "t", "r", "o">>, << >>, << >>, <<"8", "0", "0">>, << >>, << >>, <<"x">>>>>>

Table_corta ==
    <<<<<<"0", "1", "/", "0", "2">>, <<"U", "b", "e", "r">>, <<"5", "0", "0", "0">>>>,
        <<<<"0", "2", "/", "0", "2">>, <<"M", "e", "t", "r", "o">>, <<"8", "0", "0">>>>>>

ParsedData(text, tables) == [t |-> "dict", text |-> text, tables |-> tables]

TableInfo(data) == [data |-> data]

Hashes == {"h_pago", "h_tabla", "h_mixto", "h_portada", "h_ancha", "h_blanco", "h_corta"}

Content(hash) ==
    CASE hash = "h_pago"    -> ParsedData(Text_pago, << >>)
      [] hash = "h_tabla"   -> ParsedData(<< >>, <<TableInfo(Table_cartola)>>)
      [] hash = "h_mixto"   -> ParsedData(Text_transferencia, <<TableInfo(Table_cartola)>>)
      [] hash = "h_portada" -> ParsedData(Text_portada, << >>)
      [] hash = "h_ancha"   -> ParsedData(<< >>, <<TableInfo(Table_ancha)>>)
      [] hash = "h_blanco"  -> ParsedData(<< >>, << >>)
      [] hash = "h_corta"   -> ParsedData(Text_portada, <<TableInfo(Table_corta)>>)

Attachment(path, hash) == [path |-> path, hash |-> hash]

\* the files the mailbox has saved: one per document, and a second copy of one
Attachments ==
    {Attachment("pago.pdf", "h_pago"), Attachment("pago_1.pdf", "h_pago"),
     Attachment("tabla.pdf", "h_tabla"), Attachment("mixto.pdf", "h_mixto"),
     Attachment("portada.pdf", "h_portada"), Attachment("ancha.pdf", "h_ancha"),
     Attachment("blanco.pdf", "h_blanco"), Attachment("corta.pdf", "h_corta")}

AIEnv(available, outcome) == [available |-> available, outcome |-> outcome]

\* what the AI collaborator may do in one call of extract_transactions
AIEnvs ==
    {AIEnv(FALSE, None)}
        \cup {AIEnv(TRUE, o) :
                o \in {Raise("APIError"),
                       RespText(<<Prose>>),
                       RespText(ArrayText(<< >>)),
                       RespText(<<Prose>> \o ArrayText(<<E_pago, E_sueldo>>) \o <<Prose>>),
                       RespText(ArrayText(<<E_monto_negative>>)),
                       RespText(ArrayText(<<E_tipo_gasto>>)),
                       RespText(ArrayText(<<E_descripcion_null>>))}}

\* the mutant of is_processed that looks the path up in the set
is_processed_path(attachment) == attachment.path \in processed_files

\* FileTracker.is_processed: the hash of the file's bytes is in the set
is_processed(attachment) == attachment.hash \in processed_files

\* what self.parser.extract_content may return for the file: None when the
\* PDF cannot be opened or decrypted, the dict of its content otherwise
ParseOutcomes(attachment) == {None, Content(attachment.hash)}

\* the AI collaborator is consulted only for a content with a text
AIEnvsFor(parsed_data) ==
    IF parsed_data # None /\ parsed_data.text # << >> THEN AIEnvs ELSE {AIEnv(FALSE, None)}

\* process_file for every file, every outcome of extract_content and every
\* behaviour of the AI collaborator, worked out once
ProcessFileCalls ==
    [attachment \in Attachments, opened \in BOOLEAN, ai \in AIEnvs |->
        process_file(attachment.path,
                     IF opened THEN Content(attachment.hash) ELSE None, ai)]

InitRun ==
    /\ run_pc = "idle" /\ runs = 0 /\ seen = 0
    /\ processed_files = {} /\ tracking_file = {}
    /\ processed_count = 0 /\ skipped_count = 0
    /\ outputs = {} /\ last_file = None
    /\ AmountIdle
    /\ AIIdle
    /\ FnIdle

\* FinancialBot() and run() up to line 32 when the mailbox has no matching email
StartRunNoEmails ==
    /\ run_pc \in {"idle", "crashed"}
    /\ runs < MaxRuns
    /\ runs' = runs + 1
    /\ processed_files' = tracking_file
    /\ run_pc' = "idle"
    /\ seen' = 0 /\ processed_count' = 0 /\ skipped_count' = 0
    /\ last_file' = None
    /\ UNCHANGED <<tracking_file, outputs, amountVars, aiVars, fnVars>>

\* FinancialBot() and run() up to line 37: FileTracker loads the tracking file
StartRun ==
    /\ run_pc \in {"idle", "crashed"}
    /\ runs < MaxRuns
    /\ runs' = runs + 1
    /\ processed_files' = tracking_file
    /\ run_pc' = "loop"
    /\ seen' = 0 /\ processed_count' = 0 /\ skipped_count' = 0
    /\ last_file' = None
    /\ UNCHANGED <<tracking_file, outputs, amountVars, aiVars, fnVars>>

\* lines 44-49: the next attachment of the batch is one already processed
SkipFile ==
    /\ run_pc = "loop"
    /\ seen < MaxBatch
    /\ \E attachment \in Attachments :
          /\ is_processed(attachment)
          /\ last_file' = [t |-> "skipped", attachment |-> attachment]
    /\ seen' = seen + 1
    /\ skipped_count' = skipped_count + 1
    /\ UNCHANGED <<run_pc, runs, processed_files, tracking_file, processed_count,
                   outputs, amountVars, aiVars, fnVars>>

\* the mutant of file_processed that marks the file whatever process_file returned
file_processed_unconditional(attachment, parsed_data, ai, call) ==
    /\ last_file' = [t |-> "processed", attachment |-> attachment,
                     parsed_data |-> parsed_data, ai |-> ai, call |-> call]
    /\ outputs' = outputs \cup call.written
    /\ run_pc' = IF IsRaise(call.result) THEN "crashed" ELSE "loop"
    /\ processed_files' = processed_files \cup {attachment.hash}
    /\ tracking_file' = processed_files \cup {attachment.hash}
    /\ processed_count' = processed_count + 1

\* lines 52-55 behind the call of process_file: the file is marked, and the
\* tracking file saved, only when the call returned True; an exception of
\* process_file leaves run, which has no handler for it
file_processed(attachment, parsed_data, ai, call) ==
    /\ last_file' = [t |-> "processed", attachment |-> attachment,
                     parsed_data |-> parsed_data, ai |-> ai, call |-> call]
    /\ outputs' = outputs \cup call.written
    /\ run_pc' = IF IsRaise(call.result) THEN "crashed" ELSE "loop"
    /\ processed_files' = IF call.result = PyBool(TRUE)
                          THEN processed_files \cup {attachment.hash}
                          ELSE processed_files
    /\ tracking_file' = IF call.result = PyBool(TRUE)
                        THEN processed_files \cup {attachment.hash}
                        ELSE tracking_file
    /\ processed_count' = IF call.result = PyBool(TRUE) THEN processed_count + 1
                          ELSE processed_count

\* lines 44-55: the next attachment of the batch is a new one
ProcessFile ==
    /\ run_pc = "loop"
    /\ seen < MaxBatch
    /\ \E attachment \in Attachments :
          /\ ~is_processed(attachment)
          /\ \E parsed_data \in ParseOutcomes(attachment) :
                \E ai \in AIEnvsFor(parsed_data) :
                   file_processed(attachment, parsed_data, ai,
                                  ProcessFileCalls[attachment, parsed_data # None, ai])
    /\ seen' = seen + 1
    /\ UNCHANGED <<runs, skipped_count, amountVars, aiVars, fnVars>>

\* lines 57-62: the batch is exhausted, the summary is printed
FinishRun ==
    /\ run_pc = "loop"
    /\ run_pc' = "idle"
    /\ UNCHANGED <<runs, seen, processed_files, tracking_file, processed_count,
                   skipped_count, outputs, last_file, amountVars, aiVars, fnVars>>

Next == StartRunNoEmails \/ StartRun \/ SkipFile \/ ProcessFile \/ FinishRun

Spec == InitRun /\ [][Next]_vars

---------------------------------------------------------------------------
(* Categorizer.categorize called on its own                                *)

\* the descriptions of test_categorizer (src/test_bot.py lines 13-16)
Str_Compra_en_Supermercado_Lider == <<"C", "o", "m", "p", "r", "a", " ", "e", "n", " ", "S", "u", "p", "e", "r", "m", "e", "r", "c", "a", "d", "o", " ", "L", "i", "d", "e", "r">>
Str_Pago_Netflix == <<"P", "a", "g", "o", " ", "N", "e", "t", "f", "l", "i", "x">>
Str_Transferencia_a_Juan == <<"T", "r", "a", "n", "s", "f", "e", "r", "e", "n", "c", "i", "a", " ", "a", " ", "J", "u", "a", "n">>
Str_Gasto_desconocido == <<"G", "a", "s", "t", "o", " ", "d", "e", "s", "c", "o", "n", "o", "c", "i", "d", "o">>

TestDescriptions == {Str_Compra_en_Supermercado_Lider, Str_Pago_Netflix,
                     Str_Transferencia_a_Juan, Str_Gasto_desconocido}

DescriptionWords ==
    {<<"C", "o", "m", "p", "r", "a">>,
     <<"S", "u", "p", "e", "r", "m", "e", "r", "c", "a", "d", "o">>,
     <<"P", "a", "g", "o">>,
     <<"N", "E", "T", "F", "L", "I", "X">>,
     <<"T", "r", "a", "n", "s", "f", "e", "r", "e", "n", "c", "i", "a">>,
     <<"G", "a", "s", "t", "o">>,
     <<"d", "e", "s", "c", "o", "n", "o", "c", "i", "d", "o">>,
     <<"U", "b", "e", "r">>,
     <<"A", "u", "t", "o", "b", "u", "s">>,
     <<"S", "u", "e", "l", "d", "o">>,
     <<"J", "u", "a", "n">>}

RECURSIVE JoinSpace(_)
JoinSpace(words) ==
    IF words = << >> THEN << >>
    ELSE IF Len(words) = 1 THEN Head(words)
    ELSE Head(words) \o <<" ">> \o JoinSpace(Tail(words))

Descriptions ==
    TestDescriptions \cup {JoinSpace(words) : words \in SeqsUpTo(DescriptionWords, MaxWords)}

Amounts == {Zero, Float(5000, 0), Float(-5000, 0), Float(15, 1)}

CategorizeCalls ==
    {[f |-> "categorize", description |-> PyStr(description), amount |-> amount] :
        description \in Descriptions, amount \in Amounts}

InitCategorize ==
    /\ fn_args \in CategorizeCalls
    /\ fn_pc = "call"
    /\ fn_ret = None
    /\ AmountIdle
    /\ AIIdle
    /\ RunIdle

Categorize ==
    /\ fn_pc = "call"
    /\ fn_args.f = "categorize"
    /\ LET r == categorize(fn_args.description, fn_args.amount)
       IN  /\ fn_pc' = IF IsRaise(r) THEN "raised" ELSE "returned"
           /\ fn_ret' = r
    /\ UNCHANGED <<fn_args, amountVars, aiVars, runVars>>

NextCategorize == Categorize

SpecCategorize == InitCategorize /\ [][NextCategorize]_vars

---------------------------------------------------------------------------
(* _extract_from_tables_pandas called on its own, on one table with the    *)
(* header FECHA, DETALLE, SUCURSAL, NDOC, CARGO, ABONO, SALDO              *)

CartolaHeader == Table_cartola[1]

FechaCells ==
    {<<"0", "1", "/", "0", "2", "/", "2", "0", "2", "4">>,
     << >>,
     <<"3", "1", "/", "0", "2">>}

DetalleCells ==
    {<<"U", "b", "e", "r", " ", "T", "r", "i", "p">>,
     << >>,
     <<" ", "S", "u", "e", "l", "d", "o", " ">>,
     <<"P", "a", "g", "o", " ", "T", "O", "T", "A", "L">>,
     <<"n", "a", "n">>}

CargoCells ==
    {<< >>,
     <<"5", "0", "0", "0">>,
     <<"0">>}

AbonoCells ==
    {<< >>,
     <<"1", ".", "5", "0", "0", ".", "0", "0", "0">>,
     <<"-", "5", "0", "0", "0">>}

DataRows ==
    {<<fecha, detalle, << >>, << >>, cargo, abono, << >>>> :
        fecha \in FechaCells, detalle \in DetalleCells,
        cargo \in CargoCells, abono \in AbonoCells}

\* mock_table of test_extractor_tables (src/test_bot.py lines 34-38)
MockHeader == <<<<"F", "e", "c", "h", "a">>, <<"D", "e", "s", "c", "r", "i", "p", "c", "i", "o", "n">>, <<"M", "o", "n", "t", "o">>>>

MockRow_Uber == <<<<"0", "1", "/", "0", "2", "/", "2", "0", "2", "4">>, <<"U", "b", "e", "r", " ", "T", "r", "i", "p">>, <<"-", "5", "0", "0", "0">>>>

MockRow_Sueldo == <<<<"0", "2", "/", "0", "2", "/", "2", "0", "2", "4">>, <<"S", "u", "e", "l", "d", "o">>, <<"1", "5", "0", "0", "0", "0", "0">>>>

Mock_table == <<MockHeader, MockRow_Uber, MockRow_Sueldo>>

MockTables ==
    {Mock_table, <<MockHeader, MockRow_Uber>>, <<MockHeader, MockRow_Sueldo>>,
     <<MockHeader, MockRow_Sueldo, MockRow_Uber>>}

\* the call of the test passes the table itself, the one of
\* extract_transactions the list of the dicts that hold the tables
TableCalls ==
    {[f |-> "_extract_from_tables_pandas", rows |-> rows,
      tables_data |-> <<TableInfo(<<CartolaHeader>> \o rows)>>] :
        rows \in SeqsUpTo(DataRows, MaxRows) \ {<< >>}}
    \cup
    {[f |-> f, rows |-> Tail(table), tables_data |-> <<TableInfo(table)>>] :
        f \in {"_extract_from_tables", "_extract_from_tables_pandas"},
        table \in MockTables}

\* rows without a header keyword, cut to the width of their table
WideRows ==
    {<<fecha, <<"U", "b", "e", "r", " ", "T", "r", "i", "p">>, << >>, << >>, cargo, abono, <<"9", "5", ".", "0", "0", "0">>, <<"x">>>> :
        fecha \in {<<"0", "1", "/", "0", "2", "/", "2", "0", "2", "4">>, << >>},
        cargo \in {<<"5", "0", "0", "0">>, << >>},
        abono \in {<<"1", ".", "5", "0", "0", ".", "0", "0", "0">>, << >>}}

Widths == {5, 6, 7, 8}

HeaderlessTables ==
    {[i \in 1..Len(rows) |-> SubSeq(rows[i], 1, width)] :
        rows \in SeqsUpTo(WideRows, MaxRows + 1) \ {<< >>}, width \in Widths}

HeaderlessCalls ==
    {[f |-> "_extract_from_tables_pandas", rows |-> table,
      tables_data |-> <<TableInfo(table)>>] : table \in HeaderlessTables}

\* a header with the label CARGO over two columns
Header_two_cargos ==
    <<<<"F", "E", "C", "H", "A">>, <<"D", "E", "T", "A", "L", "L", "E">>, <<"S", "U", "C", "U", "R", "S", "A", "L">>, <<"C", "A", "R", "G", "O">>, <<"C", "A", "R", "G", "O">>, <<"A", "B", "O", "N", "O">>, <<"S", "A", "L", "D", "O">>>>

Row_expense == <<<<"0", "1", "/", "0", "2", "/", "2", "0", "2", "4">>, <<"U", "b", "e", "r", " ", "T", "r", "i", "p">>, << >>, << >>, <<"5", "0", "0", "0">>, << >>, << >>>>
Row_both == <<<<"0", "2", "/", "0", "2", "/", "2", "0", "2", "4">>, <<" ", "S", "u", "e", "l", "d", "o", " ">>, << >>, << >>, <<"8", "0", "0">>, <<"1", ".", "5", "0", "0", ".", "0", "0", "0">>, << >>>>
Row_no_date == <<<< >>, <<"P", "a", "g", "o">>, << >>, << >>, <<"5", "0", "0", "0">>, << >>, << >>>>
Row_bad_date == <<<<"3", "1", "/", "0", "2">>, <<"P", "a", "g", "o">>, << >>, << >>, <<"5", "0", "0", "0">>, << >>, << >>>>
Row_summary == <<<<"0", "3", "/", "0", "2", "/", "2", "0", "2", "4">>, <<"S", "A", "L", "D", "O", " ", "F", "I", "N", "A", "L">>, << >>, << >>, << >>, <<"9", "5", ".", "0", "0", "0">>, << >>>>
Row_no_description == <<<<"0", "4", "/", "0", "2", "/", "2", "0", "2", "4">>, <<" ", " ">>, << >>, << >>, <<"5", "0", "0", "0">>, << >>, << >>>>

RowSequences ==
    {<<Row_expense, Row_summary, Row_both>>,
     <<Row_no_date, Row_both>>,
     <<Row_bad_date, Row_expense, Row_no_description>>,
     <<Row_both>>}

SeveralRowTables ==
    {<<header>> \o rows :
        header \in {CartolaHeader, Header_two_cargos}, rows \in RowSequences}

SeveralTableCalls ==
    {[f |-> "_extract_from_tables_pandas", rows |-> Tail(tables[1]),
      tables_data |-> [i \in 1..Len(tables) |-> TableInfo(tables[i])]] :
        tables \in SeqsUpTo(SeveralRowTables, MaxTables) \ {<< >>}}

\* the header of the docstring of _extract_from_tables_pandas (line 47)
Header_banco_chile ==
    <<<<"D", "Í", "A", "/", "M", "E", "S">>, <<"D", "E", "T", "A", "L", "L", "E">>, <<"S", "U", "C", "U", "R", "S", "A", "L">>, <<"N", "°", "D", "O", "C", "T", "O">>,
      <<"C", "H", "E", "Q", "U", "E", "S", "/", "C", "A", "R", "G", "O", "S">>,
      <<"D", "E", "P", "O", "S", "I", "T", "O", "S", "/", "A", "B", "O", "N", "O", "S">>,
      <<"S", "A", "L", "D", "O">>>>

\* the same header with DIA/MES written without the accent
Header_sin_tilde == [Header_banco_chile EXCEPT ![1] = <<"D", "I", "A", "/", "M", "E", "S">>]

DocumentedCalls ==
    {[f |-> "_extract_from_tables_pandas", rows |-> rows,
      tables_data |-> <<TableInfo(<<header>> \o rows)>>] :
        header \in {Header_banco_chile, Header_sin_tilde}, rows \in RowSequences}

InitTable ==
    /\ fn_args \in TableCalls \cup HeaderlessCalls \cup SeveralTableCalls
                      \cup DocumentedCalls
    /\ fn_pc = "call"
    /\ fn_ret = None
    /\ AmountIdle
    /\ AIIdle
    /\ RunIdle

ExtractFromTables ==
    /\ fn_pc = "call"
    /\ fn_args.f = "_extract_from_tables_pandas"
    /\ LET r == _extract_from_tables_pandas(fn_args.tables_data)
       IN  /\ fn_pc' = IF IsRaise(r) THEN "raised" ELSE "returned"
           /\ fn_ret' = r
    /\ UNCHANGED <<fn_args, amountVars, aiVars, runVars>>

\* self.extractor._extract_from_tables(mock_table) of the test (line 39)
TestExtractFromTables ==
    /\ fn_pc = "call"
    /\ fn_args.f = "_extract_from_tables"
    /\ LET r == extractor_getattr(fn_args.f)
       IN  /\ IsRaise(r)
           /\ fn_pc' = "raised"
           /\ fn_ret' = r
    /\ UNCHANGED <<fn_args, amountVars, aiVars, runVars>>

NextTable == ExtractFromTables \/ TestExtractFromTables

SpecTable == InitTable /\ [][NextTable]_vars

---------------------------------------------------------------------------
(* The text tier on its own: _extract_from_text called with a text, and    *)
(* process_file called on a file with that text, no table and no AI        *)

Line_TRANSFERENCIA_DESDE_Juan == <<"T", "R", "A", "N", "S", "F", "E", "R", "E", "N", "C", "I", "A", " ", "D", "E", "S", "D", "E", " ", "J", "u", "a", "n">>
Line_PAGO_LIDER == <<"P", "A", "G", "O", ":", "L", "I", "D", "E", "R">>
Line_TRASPASO_DE_Ana == <<"T", "R", "A", "S", "P", "A", "S", "O", " ", "D", "E", ":", "A", "n", "a">>
Line_PAGO_COMERCIO_NETFLIX ==
    <<"P", "A", "G", "O", ":", "C", "O", "M", "E", "R", "C", "I", "O", " ", "X", "X", "X", "X", "X", "X", "X", "X", "X", "X", "X", "X", "X", "X", "X", "X", "X", "X", "X", "X", "X", "X", "X", "X", "X", "X", "X", "X", "X", "X", "X", "X", "X", "X", "X", "X", "X", "X", "X", "X", "X", "X", "X", "X", "X", "X", "X", "X", "X", "X", "X", "X", "X", "X", "X", "X", "X", "X", "X", "X", "X", "X", "X", "X", "X", "X", "X", "X", "X", "X", "X", "X", "X", "X", "X", "X", "X", "X", "X", "X", "X", "X", "X", "X", "X", "X", "X", "X", "X", "X", " ", "N", "E", "T", "F", "L", "I", "X">>
Line_150_000 == <<"1", "5", "0", ".", "0", "0", "0">>
Line_minus_5_000 == <<"-", "5", ".", "0", "0", "0">>
Line_ABONO_150_000 == <<"A", "B", "O", "N", "O", " ", "1", "5", "0", ".", "0", "0", "0">>
Line_CENTRAL == <<"C", "E", "N", "T", "R", "A", "L">>
Line_Cartola == <<"C", "a", "r", "t", "o", "l", "a">>
Line_GIRO_12_01_2024 == <<"G", "I", "R", "O", " ", "1", "2", "/", "0", "1", "/", "2", "0", "2", "4">>

TextLines ==
    {Line_TRANSFERENCIA_DESDE_Juan, Line_PAGO_LIDER, Line_TRASPASO_DE_Ana,
     Line_PAGO_COMERCIO_NETFLIX, Line_150_000, Line_minus_5_000,
     Line_ABONO_150_000, Line_CENTRAL, Line_Cartola, Line_GIRO_12_01_2024, << >>}

\* sample_text of test_extractor_text (src/test_bot.py lines 19-23)
Text_test_extractor ==
    <<"\n", " ", " ", " ", " ", " ", " ", " ", " ", "R", "e", "s", "u", "m", "e", "n", " ", "d", "e", " ", "c", "u", "e", "n", "t", "a", "\n", " ", " ", " ", " ", " ", " ", " ", " ", "1", "2", "/", "0", "1", "/", "2", "0", "2", "4", " ", "C", "o", "m", "p", "r", "a", " ", "S", "t", "o", "r", "e", " ", "1", "2", "3", "4", "5", " ", "$", " ", "1", "0", ".", "0", "0", "0", "\n", " ", " ", " ", " ", " ", " ", " ", " ", "1", "5", "-", "0", "1", "-", "2", "0", "2", "4", " ", "P", "a", "g", "o", " ", "S", "e", "r", "v", "i", "c", "i", "o", " ", "$", " ", "5", ".", "5", "0", "0", "\n", " ", " ", " ", " ", " ", " ", " ", " ">>

RECURSIVE JoinNewline(_)
JoinNewline(lines) ==
    IF lines = << >> THEN << >>
    ELSE IF Len(lines) = 1 THEN Head(lines)
    ELSE Head(lines) \o <<"\n">> \o JoinNewline(Tail(lines))

Texts ==
    {Text_test_extractor}
        \cup {JoinNewline(lines) : lines \in SeqsUpTo(TextLines, MaxLines)}

\* a candidate line, up to MaxGap lines without an amount, and an amount line
GapTexts ==
    {JoinNewline(<<candidate>> \o gap \o <<Line_150_000>>) :
        candidate \in {Line_PAGO_LIDER, Line_TRANSFERENCIA_DESDE_Juan},
        gap \in SeqsUpTo({Line_CENTRAL, Line_Cartola}, MaxGap)}

\* a file with two lines of text
FileTexts == {JoinNewline(<<first, second>>) : first \in TextLines, second \in TextLines}

TextCalls ==
    {[f |-> "_extract_from_text", text |-> text] : text \in Texts \cup GapTexts}
        \cup {[f |-> "process_file", text |-> text] : text \in FileTexts}

InitText ==
    /\ fn_args \in TextCalls
    /\ fn_pc = "call"
    /\ fn_ret = None
    /\ AmountIdle
    /\ AIIdle
    /\ RunIdle

ExtractFromText ==
    /\ fn_pc = "call"
    /\ fn_args.f = "_extract_from_text"
    /\ fn_ret' = PyList(_extract_from_text(fn_args.text))
    /\ fn_pc' = "returned"
    /\ UNCHANGED <<fn_args, amountVars, aiVars, runVars>>

ProcessTextFile ==
    /\ fn_pc = "call"
    /\ fn_args.f = "process_file"
    /\ LET r == process_file("cartola.pdf", ParsedData(fn_args.text, << >>),
                             AIEnv(FALSE, None))
       IN  /\ fn_pc' = IF IsRaise(r.result) THEN "raised" ELSE "returned"
           /\ fn_ret' = r
    /\ UNCHANGED <<fn_args, amountVars, aiVars, runVars>>

NextText == ExtractFromText \/ ProcessTextFile

SpecText == InitText /\ [][NextText]_vars

---------------------------------------------------------------------------
(* The two extractors side by side: a call of either tier                  *)

InitExtractors == InitText \/ InitTable

NextExtractors ==
    \/ ExtractFromText
    \/ ProcessTextFile
    \/ ExtractFromTables
    \/ TestExtractFromTables

SpecExtractors == InitExtractors /\ [][NextExtractors]_vars

---------------------------------------------------------------------------
(* _parse_date_banco_chile called on its own                               *)

\* the pieces date strings are put together from, joined with "/"
DateParts == {<< >>, <<"0", "2">>, <<"1", "3">>, <<"2", "9">>, <<"3", "1">>,
              <<"4", "9">>, <<"5", "0">>, <<"0", "0", "5", "0">>,
              <<"2", "0", "2", "4">>, Str_nan}

DefaultYears == {2024, 2025}

RECURSIVE JoinSlash(_)
JoinSlash(parts) ==
    IF Len(parts) = 1 THEN Head(parts)
    ELSE Head(parts) \o <<"/">> \o JoinSlash(Tail(parts))

DateCalls ==
    {[f |-> "_parse_date_banco_chile", parts |-> parts,
      date_str |-> JoinSlash(parts), default_year |-> default_year] :
        parts \in SeqsUpTo(DateParts, MaxDateParts) \ {<< >>},
        default_year \in DefaultYears}

InitDate ==
    /\ fn_args \in DateCalls
    /\ fn_pc = "call"
    /\ fn_ret = None
    /\ AmountIdle
    /\ AIIdle
    /\ RunIdle

ParseDate ==
    /\ fn_pc = "call"
    /\ fn_args.f = "_parse_date_banco_chile"
    /\ LET r == _parse_date_banco_chile(fn_args.date_str, fn_args.default_year)
       IN  /\ fn_pc' = IF IsRaise(r) THEN "raised" ELSE "returned"
           /\ fn_ret' = r
    /\ UNCHANGED <<fn_args, amountVars, aiVars, runVars>>

NextDate == ParseDate

SpecDate == InitDate /\ [][NextDate]_vars

---------------------------------------------------------------------------
(* Claims about extract_transactions.                                      *)
(*                                                                         *)
(* last_file records the last attachment the loop of run has dealt with:   *)
(* the content extract_content gave, what the AI collaborator did and the  *)
(* record of the process_file call.  The outputs of the three extractors   *)
(* are worked out here from the content and the collaborator alone.        *)

\* process_file has called extract_transactions for the last attachment
Extracted == last_file.t = "processed" /\ last_file.parsed_data # None

\* what the AI-assisted extractor returned in a call with this content; None
\* when it was not invoked or did not return (AIParser could not be made)
AIReturned(parsed_data, ai) ==
    IF parsed_data.text # << >> /\ ai.available
    THEN parse_transactions(ai.outcome) ELSE None

\* the transactions the AI step produced: none when it raised or was skipped
AIProduced(returned) == IF returned = None THEN << >> ELSE returned.v

\* the output of the text-based extractor for this content
TextProduced(parsed_data) ==
    IF parsed_data.text # << >>
    THEN _extract_from_text_banco_chile(parsed_data.text) ELSE << >>

\* the first non-empty of the three outputs, in the order AI, text, table
FirstNonEmpty(ai_list, text_list, table_result) ==
    IF ai_list # << >> THEN PyList(ai_list)
    ELSE IF text_list # << >> THEN PyList(text_list)
    ELSE table_result

\* the text-based extractor is due: the text is non-empty and the AI step
\* produced nothing
TextDue(parsed_data, ai_list) == parsed_data.text # << >> /\ ai_list = << >>

\* the table-based extractor is due: nothing produced so far, tables non-empty
TableDue(parsed_data, ai_list, text_list) ==
    parsed_data.tables # << >> /\ ai_list = << >> /\ text_list = << >>

\* C1: whenever the AI-assisted extractor returns at least one transaction,
\* neither the text-based nor the table-based extractor is invoked in that
\* call of extract_transactions, whatever the text and the tables are.
C1_AIShortCircuit ==
    Extracted =>
        (AIProduced(AIReturned(last_file.parsed_data, last_file.ai)) # << >> =>
            /\ ~last_file.call.ex.calls.text
            /\ ~last_file.call.ex.calls.table)

\* the AI extractor returned two transactions for a content that has a text
\* and a table, and they are what extract_transactions returned
C1_Witness ==
    /\ Extracted
    /\ last_file.parsed_data.tables # << >>
    /\ last_file.call.ex.calls.ai
    /\ Len(AIProduced(AIReturned(last_file.parsed_data, last_file.ai))) = 2
    /\ last_file.call.ex.ret = AIReturned(last_file.parsed_data, last_file.ai)

\* C2: the list extract_transactions returns is the output of exactly one
\* tier, the first in the order AI, text, table whose output is non-empty,
\* never a merge of two; when every tier yields nothing it is the empty list
\* and no error is raised.
C2_FirstNonEmptyTier ==
    Extracted =>
        /\ ~IsRaise(last_file.call.ex.ret) =>
              last_file.call.ex.ret =
                 FirstNonEmpty(AIProduced(AIReturned(last_file.parsed_data, last_file.ai)),
                               TextProduced(last_file.parsed_data),
                               _extract_from_tables_pandas(last_file.parsed_data.tables))
        /\ FirstNonEmpty(AIProduced(AIReturned(last_file.parsed_data, last_file.ai)),
                         TextProduced(last_file.parsed_data),
                         _extract_from_tables_pandas(last_file.parsed_data.tables))
              = PyList(<< >>) => last_file.call.ex.ret = PyList(<< >>)

\* the AI extractor returned an empty list, the text tier found a transaction
\* and the content has a table with transactions: the text tier's list alone
\* is returned
C2_Witness ==
    /\ Extracted
    /\ last_file.call.ex.calls.ai
    /\ AIReturned(last_file.parsed_data, last_file.ai) = PyList(<< >>)
    /\ TextProduced(last_file.parsed_data) # << >>
    /\ _extract_from_tables_pandas(last_file.parsed_data.tables) \notin
          {PyList(<< >>), Raise("ValueError")}
    /\ last_file.call.ex.ret = PyList(TextProduced(last_file.parsed_data))

\* C3: an AI step that raises or is unavailable is caught; the text-based
\* extractor is invoked exactly when the text is non-empty and the AI step
\* produced no transaction or raised, the table-based extractor exactly when
\* no transaction has been produced so far and tables is non-empty.
C3_FallbackConditions ==
    Extracted =>
        /\ IsRaise(last_file.call.ex.ret) => last_file.call.ex.calls.table
        /\ last_file.call.ex.calls.text <=>
              TextDue(last_file.parsed_data,
                      AIProduced(AIReturned(last_file.parsed_data, last_file.ai)))
        /\ last_file.call.ex.calls.table <=>
              TableDue(last_file.parsed_data,
                       AIProduced(AIReturned(last_file.parsed_data, last_file.ai)),
                       TextProduced(last_file.parsed_data))

\* AIParser could not be made for a content with a text and a table; the text
\* tier and then the table tier were invoked
C3_Witness ==
    /\ Extracted
    /\ last_file.parsed_data.text # << >>
    /\ ~last_file.ai.available
    /\ last_file.call.ex.calls.text
    /\ last_file.call.ex.calls.table
    /\ ~IsRaise(last_file.call.ex.ret)

---------------------------------------------------------------------------
(* Claims about the transactions and the Statement of process_file.        *)

Directions == {PyStr(Str_ingreso), PyStr(Str_egreso)}

\* the labels of the Category Rule Set, the fallback category among them
CategoryLabels ==
    {PyStr(CATEGORIES[k].category) : k \in 1..Len(CATEGORIES)} \cup {PyStr(Str_Otros)}

ValidTransaction(tr) ==
    /\ IsFloat(tr.amount)
    /\ FloatGeZero(tr.amount)
    /\ tr.type \in Directions

\* C4: every transaction extract_transactions returns has amount >= 0 and a
\* direction that is 'ingreso' or 'egreso'; once process_file has classified
\* it, its category is a label of the Category Rule Set.
C4_ValidTransactions ==
    Extracted =>
        /\ ~IsRaise(last_file.call.ex.ret) =>
              \A i \in 1..Len(last_file.call.ex.ret.v) :
                 ValidTransaction(last_file.call.ex.ret.v[i])
        /\ last_file.call.statement # None =>
              \A i \in 1..Len(last_file.call.statement.transactions) :
                 last_file.call.statement.transactions[i].category \in CategoryLabels

\* the sum of the amounts of the transactions of one direction
RECURSIVE SumOfDirection(_, _)
SumOfDirection(transactions, type) ==
    IF transactions = << >> THEN Zero
    ELSE IF Head(transactions).type = type
    THEN FloatAdd(Head(transactions).amount, SumOfDirection(Tail(transactions), type))
    ELSE SumOfDirection(Tail(transactions), type)

\* C5: the Statement of process_file has total_income equal to the sum of the
\* amounts of its income transactions and total_expense equal to the sum of
\* the amounts of its expense transactions, both 0 for the empty list.
C5_TotalsMatchDirections ==
    (Extracted /\ last_file.call.statement # None) =>
        /\ last_file.call.statement.total_income =
              SumOfDirection(last_file.call.statement.transactions, PyStr(Str_ingreso))
        /\ last_file.call.statement.total_expense =
              SumOfDirection(last_file.call.statement.transactions, PyStr(Str_egreso))

---------------------------------------------------------------------------
(* Claims about the batch run.                                             *)

\* C6: processing of one attachment always completes without an exception
\* leaving it, whatever the content or the extractor output is, so that every
\* later attachment of the batch is still processed.
C6_NoExceptionLeavesAFile ==
    /\ run_pc # "crashed"
    /\ last_file.t = "processed" => ~IsRaise(last_file.call.result)

\* the step of run for an attachment whose content extract_content gave as None
UnreadableStep ==
    /\ seen' = seen + 1
    /\ last_file'.t = "processed"
    /\ last_file'.parsed_data = None

\* C7: when extract_content returns None for an attachment, process_file
\* reports failure for it alone: no output file is written, the file is not
\* added to the processed-file ledger (a later run tries it again), and the
\* loop goes on with the remaining attachments.
C7_UnreadableFileOnly ==
    [][UnreadableStep =>
          /\ last_file'.call.result = PyBool(FALSE)
          /\ outputs' = outputs
          /\ processed_files' = processed_files
          /\ tracking_file' = tracking_file
          /\ last_file'.attachment.hash \notin processed_files'
          /\ last_file'.attachment.hash \notin tracking_file'
          /\ processed_count' = processed_count
          /\ skipped_count' = skipped_count
          /\ run_pc' = "loop"]_vars

\* in a second run, a file that could not be read has been tried and has
\* failed, after another file of the batch was processed and marked
C7_Witness ==
    /\ runs = 2
    /\ run_pc = "loop"
    /\ last_file.t = "processed"
    /\ last_file.parsed_data = None
    /\ last_file.call.result = PyBool(FALSE)
    /\ processed_count = 1
    /\ outputs # {}
    /\ last_file.attachment.hash \notin processed_files

---------------------------------------------------------------------------
(* Claims about AIParser.parse_transactions.                               *)

\* the reply holds a '[' and a ']'
HasBrackets(toks) ==
    /\ \E i \in 1..Len(toks) : toks[i] = LBracket
    /\ \E i \in 1..Len(toks) : toks[i] = RBracket

\* result_text[json_start:json_end]: from the first '[' to the last ']'
Payload(toks) ==
    SubSeq(toks,
           CHOOSE i \in 1..Len(toks) :
              toks[i] = LBracket /\ \A j \in 1..(i - 1) : toks[j] # LBracket,
           CHOOSE i \in 1..Len(toks) :
              toks[i] = RBracket /\ \A j \in (i + 1)..Len(toks) : toks[j] # RBracket)

\* the model call gave no text, or a text with no bracket pair, or one whose
\* payload json.loads cannot decode
NoUsablePayload(outcome) ==
    \/ IsRaise(outcome)
    \/ outcome = None
    \/ ~HasBrackets(outcome.toks)
    \/ IsRaise(json_loads(Payload(outcome.toks)))

\* C8: parse_transactions never raises to its caller: for every outcome of
\* the model call it returns a list, and the empty list whenever no bracket
\* pair is found or the payload cannot be decoded.
C8_ParseTransactionsTotal ==
    /\ ai_pc # "raised"
    /\ ai_pc = "returned" =>
          /\ ai_ret.t = "list"
          /\ NoUsablePayload(ai_outcome) => ai_ret = PyList(<< >>)

\* a bracketed reply that is no JSON came back as the empty list
C8_Witness ==
    /\ ai_pc = "returned"
    /\ ai_outcome = RespText(<<LBracket, Prose, RBracket>>)
    /\ ai_ret = PyList(<< >>)

\* YYYY-MM-DD: three groups of digits that name a day of the calendar
IsoDate(fecha) ==
    /\ IsStr(fecha)
    /\ Len(StrSplit(fecha.v, "-")) = 3
    /\ \A k \in 1..3 : StrSplit(fecha.v, "-")[k] # << >> /\ AllDigits(StrSplit(fecha.v, "-")[k])
    /\ ~IsRaise(PyDate(DigitsValue(StrSplit(fecha.v, "-")[1]),
                       DigitsValue(StrSplit(fecha.v, "-")[2]),
                       DigitsValue(StrSplit(fecha.v, "-")[3])))

\* a JSON number, or a str that reads as one
NumericAmount(monto) ==
    \/ monto.t = "float"
    \/ IsStr(monto) /\ ~IsRaise(PyFloatStr(StrStrip(monto.v)))

\* an object with the four fields, a date and a numeric amount
WellFormed(e) ==
    /\ e.t = "dict"
    /\ Missing \notin {e.fecha, e.descripcion, e.monto, e.tipo}
    /\ IsoDate(e.fecha)
    /\ NumericAmount(e.monto)

\* the transaction of a well-formed element
TransactionOfElement(e) ==
    Transaction(PyDate(DigitsValue(StrSplit(e.fecha.v, "-")[1]),
                       DigitsValue(StrSplit(e.fecha.v, "-")[2]),
                       DigitsValue(StrSplit(e.fecha.v, "-")[3])),
                e.descripcion,
                IF IsStr(e.monto) THEN PyFloatStr(StrStrip(e.monto.v)) ELSE e.monto,
                e.tipo)

\* one transaction for each well-formed element, in array order
RECURSIVE WellFormedTransactions(_)
WellFormedTransactions(elems) ==
    IF elems = << >> THEN << >>
    ELSE (IF WellFormed(Head(elems)) THEN <<TransactionOfElement(Head(elems))>> ELSE << >>)
         \o WellFormedTransactions(Tail(elems))

\* C9: for a decoded JSON array, parse_transactions returns one transaction
\* for each well-formed element, in array order, and drops each malformed
\* element (missing field, bad date, non-numeric amount, no object) without
\* dropping any other.
C9_WellFormedElementsOnly ==
    (ai_pc = "returned" /\ ~NoUsablePayload(ai_outcome)) =>
        ai_ret = PyList(WellFormedTransactions(json_loads(Payload(ai_outcome.toks)).v))

---------------------------------------------------------------------------
(* Claims about _parse_amount.                                             *)

Count(s, ch) == Cardinality({i \in 1..Len(s) : s[i] = ch})

HasDigit(s) == \E i \in 1..Len(s) : s[i] \in Digits

\* A str no reading makes a number: no digit at all, more than one '-',
\* more than one ',', or a '-' behind a digit.
Unparseable(s) ==
    \/ ~HasDigit(s)
    \/ Count(s, "-") > 1
    \/ Count(s, ",") > 1
    \/ \E i, j \in 1..Len(s) : i < j /\ s[i] \in Digits /\ s[j] = "-"

\* C11: _parse_amount is idempotent on its own output: for every str s,
\* parsing the text form of _parse_amount(s) gives _parse_amount(s) again.
C11_Idempotent ==
    amount_pc = "reparsed" => amount_again = amount_ret

\* C10: _parse_amount never raises; it returns a non-negative number for every
\* str, and 0 for every str that cannot be parsed (empty, '-', '.', ',',
\* symbols only, several '-' or ',', no digit).
C10_ParseAmountTotal ==
    /\ amount_pc # "raised"
    /\ amount_pc = "returned" =>
          /\ IsFloat(amount_ret)
          /\ FloatGeZero(amount_ret)
          /\ Unparseable(amount_str) => amount_ret = Zero

\* an input float() rejects has been parsed: '1-5' came back as 0
C10_Witness ==
    /\ amount_pc = "returned"
    /\ amount_str = <<"1", "-", "5">>
    /\ amount_ret = Zero

---------------------------------------------------------------------------
(* Claims about _parse_date_banco_chile                                    *)

DateDone == fn_pc # "call" /\ fn_args.f = "_parse_date_banco_chile"

Numeric(part) == part # << >> /\ AllDigits(part)

NumericParts(parts) == \A i \in 1..Len(parts) : Numeric(parts[i])

\* a day that exists in the calendar of that year
CalendarDay(y, m, d) ==
    /\ 1 <= y /\ y <= 9999
    /\ 1 <= m /\ m <= 12
    /\ 1 <= d /\ d <= DaysInMonth(y, m)

DateOf(y, m, d) == [t |-> "date", y |-> y, m |-> m, d |-> d]

\* the date the call is to return when the year resolves to y
Resolves(parts, y) ==
    CalendarDay(y, DigitsValue(parts[2]), DigitsValue(parts[1]))
       => /\ fn_pc = "returned"
          /\ fn_ret = DateOf(y, DigitsValue(parts[2]), DigitsValue(parts[1]))

Century(yy) == IF yy < 50 THEN 2000 + yy ELSE 1900 + yy

TwoPartRule(parts, default_year) ==
    Len(parts) = 2 /\ NumericParts(parts) => Resolves(parts, default_year)

TwoDigitRule(parts) ==
    Len(parts) = 3 /\ NumericParts(parts) /\ Len(parts[3]) = 2
       => Resolves(parts, Century(DigitsValue(parts[3])))

\* C12 as stated: DD/MM takes the default year, DD/MM/YY takes 2000+YY below
\* 50 and 1900+YY from 50 on, and a year written with four digits is kept as
\* written.
C12_FourDigitYearKept ==
    DateDone =>
       /\ TwoPartRule(fn_args.parts, fn_args.default_year)
       /\ TwoDigitRule(fn_args.parts)
       /\ Len(fn_args.parts) = 3 /\ NumericParts(fn_args.parts)
             /\ Len(fn_args.parts[3]) = 4
             => Resolves(fn_args.parts, DigitsValue(fn_args.parts[3]))

\* C12: DD/MM takes the default year, DD/MM/YY takes 2000+YY below 50 and
\* 1900+YY from 50 on; a year written with four digits is kept as written when
\* it is 100 or more, and one below 100 (0050) is resolved like a two-digit
\* year.
C12_DateResolution ==
    DateDone =>
       /\ TwoPartRule(fn_args.parts, fn_args.default_year)
       /\ TwoDigitRule(fn_args.parts)
       /\ Len(fn_args.parts) = 3 /\ NumericParts(fn_args.parts)
             /\ Len(fn_args.parts[3]) = 4
             => Resolves(fn_args.parts,
                         IF DigitsValue(fn_args.parts[3]) >= 100
                         THEN DigitsValue(fn_args.parts[3])
                         ELSE Century(DigitsValue(fn_args.parts[3])))

C12_Witness ==
    /\ DateDone
    /\ fn_args.parts = <<<<"0", "2">>, <<"0", "2">>, <<"5", "0">>>>
    /\ fn_ret = DateOf(1950, 2, 2)

\* a string the parser is to refuse: empty, one part or more than three, a
\* part that is not a number, or a day or month that no year has (day 30 of
\* February, month 13), or for DD/MM one the default year does not have
Malformed(parts, default_year) ==
    \/ Len(parts) \notin {2, 3}
    \/ ~NumericParts(parts)
    \/ DigitsValue(parts[2]) \notin 1..12
    \/ DigitsValue(parts[1]) \notin 1..DaysInMonth(2024, DigitsValue(parts[2]))
    \/ /\ Len(parts) = 2
       /\ ~CalendarDay(default_year, DigitsValue(parts[2]), DigitsValue(parts[1]))

\* C13: for a malformed string the call returns None: it never raises and
\* never returns a date.
C13_MalformedGivesNone ==
    DateDone /\ Malformed(fn_args.parts, fn_args.default_year)
       => fn_pc = "returned" /\ fn_ret = None

C13_Witness ==
    /\ DateDone
    /\ fn_args.parts = <<<<"3", "1">>, <<"0", "2">>>>
    /\ fn_pc = "returned"
    /\ fn_ret = None

---------------------------------------------------------------------------
(* Claims about Categorizer.categorize                                     *)

CategorizeDone == fn_pc # "call" /\ fn_args.f = "categorize"

\* keyword stands in text from position i on
OccursAt(keyword, text, i) ==
    /\ i + Len(keyword) - 1 <= Len(text)
    /\ \A j \in 1..Len(keyword) : text[i + j - 1] = keyword[j]

Occurs(keyword, text) == \E i \in 1..Len(text) : OccursAt(keyword, text, i)

\* the entries of CATEGORIES with a keyword somewhere in text
MatchingEntries(text) ==
    {k \in 1..Len(CATEGORIES) :
        \E n \in 1..Len(CATEGORIES[k].keywords) : Occurs(CATEGORIES[k].keywords[n], text)}

FirstCategory(text) ==
    IF MatchingEntries(text) = {} THEN Str_Otros
    ELSE CATEGORIES[CHOOSE k \in MatchingEntries(text) :
                       \A j \in MatchingEntries(text) : k <= j].category

AsWord(keyword, text) ==
    \E i \in 1..Len(StrSplit(text, " ")) : StrSplit(text, " ")[i] = keyword

NoKeywordAsWord(text) ==
    \A k \in 1..Len(CATEGORIES) : \A n \in 1..Len(CATEGORIES[k].keywords) :
        ~AsWord(CATEGORIES[k].keywords[n], text)

Returns(description, category) ==
    fn_args.description = PyStr(description) => fn_ret = PyStr(category)

\* C15: a description with no keyword among its words gets 'Otros', as
\* test_categorizer expects of 'Gasto desconocido', and the three other
\* descriptions of the test get Alimentación, Entretenimiento and
\* Transferencias.
C15_TestCategorizer ==
    CategorizeDone
       => /\ NoKeywordAsWord(StrLower(fn_args.description.v)) => fn_ret = PyStr(Str_Otros)
          /\ Returns(Str_Gasto_desconocido, Str_Otros)
          /\ Returns(Str_Compra_en_Supermercado_Lider, CATEGORIES[1].category)
          /\ Returns(Str_Pago_Netflix, CATEGORIES[7].category)
          /\ Returns(Str_Transferencia_a_Juan, CATEGORIES[11].category)

\* the three descriptions of the test that get the category the test expects
C15_OtherTestCases ==
    CategorizeDone
       => /\ Returns(Str_Compra_en_Supermercado_Lider, CATEGORIES[1].category)
          /\ Returns(Str_Pago_Netflix, CATEGORIES[7].category)
          /\ Returns(Str_Transferencia_a_Juan, CATEGORIES[11].category)

---------------------------------------------------------------------------
(* Claims about _extract_from_tables_pandas                                *)

TablesDone ==
    /\ fn_pc # "call"
    /\ fn_args.f = "_extract_from_tables_pandas"
    /\ Len(fn_args.tables_data) = 1
    /\ fn_args.tables_data[1].data[1] = CartolaHeader

RowDate(row) == _parse_date_banco_chile(StrStrip(row[1]), current_year)

\* the description is not empty and holds no summary word
Described(row) ==
    /\ StrStrip(row[2]) # << >>
    /\ \A w \in 1..Len(SummaryWords) : ~Occurs(SummaryWords[w], StrLower(row[2]))

Movement(row, cell, type) ==
    IF FloatGtZero(_parse_amount(row[cell]))
    THEN <<Transaction(RowDate(row), PyStr(StrStrip(row[2])), _parse_amount(row[cell]),
                       PyStr(type))>>
    ELSE << >>

\* an expense for the debit cell, then an income for the credit cell
Movements(row) == Movement(row, 5, Str_egreso) \o Movement(row, 6, Str_ingreso)

RECURSIVE AllMovements(_)
AllMovements(rows) ==
    IF rows = << >> THEN << >> ELSE Movements(Head(rows)) \o AllMovements(Tail(rows))

BothCells(row) ==
    FloatGtZero(_parse_amount(row[5])) /\ FloatGtZero(_parse_amount(row[6]))

Str_Uber_Trip == <<"U", "b", "e", "r", " ", "T", "r", "i", "p">>

UberRow ==
    <<<<"0", "1", "/", "0", "2", "/", "2", "0", "2", "4">>, Str_Uber_Trip, << >>, << >>, <<"5", "0", "0", "0">>, << >>, << >>>>

UberExpense ==
    <<Transaction(DateOf(2024, 2, 1), PyStr(Str_Uber_Trip), Float(5000, 0), PyStr(Str_egreso))>>

\* what the rows are to give when each has a date and a description
RowsRule(rows) ==
    /\ fn_pc = "returned"
    /\ fn_ret = PyList(AllMovements(rows))
    /\ Len(rows) = 1 /\ BothCells(rows[1]) => Len(fn_ret.v) = 2
    /\ rows = <<UberRow>> => fn_ret = PyList(UberExpense)

\* C16 as stated: every row with a resolvable date and a non-empty description
\* without a summary word gives an expense iff its debit cell parses to more
\* than 0 and an income iff its credit cell does, each with the row's date and
\* description; both cells give two, the Uber Trip row one expense of 5000.
C16_AnyDescription ==
    TablesDone
       /\ (\A i \in 1..Len(fn_args.rows) :
              RowDate(fn_args.rows[i]) # None /\ Described(fn_args.rows[i]))
       => RowsRule(fn_args.rows)

\* C16: the same for rows whose description is, besides, not the text 'nan',
\* which the code takes for a missing cell.
C16_RowMovements ==
    TablesDone
       /\ (\A i \in 1..Len(fn_args.rows) :
              /\ RowDate(fn_args.rows[i]) # None
              /\ Described(fn_args.rows[i])
              /\ StrStrip(fn_args.rows[i][2]) # Str_nan)
       => RowsRule(fn_args.rows)

C16_Witness ==
    /\ TablesDone
    /\ fn_args.rows = <<<<<<"0", "1", "/", "0", "2", "/", "2", "0", "2", "4">>, <<" ", "S", "u", "e", "l", "d", "o", " ">>, << >>, << >>, <<"5", "0", "0", "0">>, <<"1", ".", "5", "0", "0", ".", "0", "0", "0">>, << >>>>>>
    /\ Len(fn_ret.v) = 2
    /\ fn_ret.v[1].type = PyStr(Str_egreso)
    /\ fn_ret.v[2].type = PyStr(Str_ingreso)

---------------------------------------------------------------------------
(* Claims about the text tier                                              *)

TextDone == fn_pc # "call" /\ fn_args.f = "_extract_from_text"

\* line is the candidate line a transaction with this description came from
CandidateOf(line, description) ==
    /\ StrStrip(line) # << >>
    /\ description = PyStr(StrPrefix(StrStrip(line), 100))

IncomeLine(line) ==
    \E w \in 1..Len(TextIncomeWords) : Occurs(TextIncomeWords[w], line)

DirectionOf(line) == IF IncomeLine(line) THEN PyStr(Str_ingreso) ELSE PyStr(Str_egreso)

Text_TRANSFERENCIA_150_000 == JoinNewline(<<Line_TRANSFERENCIA_DESDE_Juan, Line_150_000>>)

ProcessTextDone == fn_pc # "call" /\ fn_args.f = "process_file"

\* C18: the category process_file gives a transaction of the text tier is
\* that of its whole candidate line, also when a keyword of the line lies
\* beyond its 100th character.
C18_CategoryOfFullDescription ==
    ProcessTextDone /\ fn_ret.statement # None
       => \A k \in 1..Len(fn_ret.statement.transactions) : \A line \in TextLines :
             CandidateOf(line, fn_ret.statement.transactions[k].description)
                => fn_ret.statement.transactions[k].category
                      = PyStr(FirstCategory(StrLower(StrStrip(line))))

\* C19: _extract_from_text gives the two transactions test_extractor_text
\* expects of its sample text, one for each line 'date description $ amount'
\* and none for the title line, the first dated 2024-01-12, of amount 10000
\* and type 'ingreso'.
C19_TestExtractorText ==
    TextDone /\ fn_args.text = Text_test_extractor
       => /\ Len(fn_ret.v) = 2
          /\ fn_ret.v[1].date = DateOf(2024, 1, 12)
          /\ fn_ret.v[1].amount = Float(10000, 0)
          /\ fn_ret.v[1].type = PyStr(Str_ingreso)

---------------------------------------------------------------------------
(* Claims about _extract_from_tables                                       *)

\* C20: the extractor has a method _extract_from_tables that gives the mock
\* table of test_extractor_tables one transaction per data row, in row order:
\* 'egreso' with the absolute value for the negative amount, 'ingreso' for
\* the positive one.
C20_TestExtractorTables ==
    fn_pc # "call" /\ fn_args.f = "_extract_from_tables"
       => /\ fn_pc = "returned"
          /\ Len(fn_ret.v) = Len(fn_args.rows)
          /\ \A k \in 1..Len(fn_args.rows) :
                /\ fn_args.rows[k] = MockRow_Uber
                      => /\ fn_ret.v[k].type = PyStr(Str_egreso)
                         /\ fn_ret.v[k].amount = Float(5000, 0)
                /\ fn_args.rows[k] = MockRow_Sueldo
                      => /\ fn_ret.v[k].type = PyStr(Str_ingreso)
                         /\ fn_ret.v[k].amount = Float(1500000, 0)

\* the method the class does define finds no cargo or abono column under the
\* header Fecha, Descripcion, Monto and gives the mock table no transaction
C20_PandasOnMockTable ==
    /\ fn_pc # "call"
    /\ fn_args.f = "_extract_from_tables_pandas"
    /\ fn_args.tables_data[1].data[1] = MockHeader
    => fn_ret = PyList(<< >>)

---------------------------------------------------------------------------
(* Claims about the summary of a batch run                                 *)

\* the counts the summary of lines 57-62 prints
SummaryCounts == <<processed_count, skipped_count>>

\* the attachments of the run that were neither processed nor skipped
FailedCount == seen - processed_count - skipped_count

\* C21: when a run has ended, the counts of its summary (processed, skipped,
\* failed) add up to the number of attachments the run saw.
C21_SummaryAddsUp ==
    run_pc = "idle" => SummaryCounts[1] + SummaryCounts[2] = seen

---------------------------------------------------------------------------
(* Claims about the processed-file ledger                                  *)

\* the step takes the next attachment of the batch
AttachmentStep == seen' = seen + 1

Succeeded ==
    /\ last_file'.t = "processed"
    /\ last_file'.call.result = PyBool(TRUE)

\* C22: an attachment is skipped exactly when the hash of its content is in
\* the ledger, whatever its path; process_file succeeds only for a content
\* whose hash is not in the ledger, and that hash is then added and saved;
\* nothing else adds a hash, and no hash ever leaves the ledger or the tracking
\* file, also when the ledger is loaded again from the tracking file.
C22_OncePerContent ==
    [][/\ processed_files \subseteq processed_files'
       /\ tracking_file \subseteq tracking_file'
       /\ processed_files' \subseteq tracking_file'
       /\ AttachmentStep
             => /\ last_file'.t = "skipped"
                   <=> last_file'.attachment.hash \in processed_files
                /\ Succeeded => last_file'.attachment.hash \notin processed_files
                /\ processed_files' =
                      IF Succeeded
                      THEN processed_files \cup {last_file'.attachment.hash}
                      ELSE processed_files
       /\ ~AttachmentStep => processed_files' \subseteq tracking_file]_vars

\* the second copy of a document, under another name, is skipped in the run
\* that processed the first
C22_Witness ==
    /\ runs = 1
    /\ seen = 2
    /\ processed_count = 1
    /\ last_file.t = "skipped"
    /\ last_file.attachment = Attachment("pago_1.pdf", "h_pago")

---------------------------------------------------------------------------
(* Claims about tables without a header row                                *)

\* no row of the table holds a header keyword
Headerless(table) ==
    \A i \in 1..Len(table) : \A c \in 1..Len(table[i]) :
       \A w \in 1..Len(HeaderKeywords) : ~Occurs(HeaderKeywords[w], StrLower(table[i][c]))

\* what a row gives with the date in cell 1, the description in cell 2, the
\* debit in cell 5 and the credit in cell 6
RowResult(row) ==
    IF RowDate(row) # None /\ Described(row) /\ StrStrip(row[2]) # Str_nan
    THEN Movements(row)
    ELSE << >>

RECURSIVE RowResults(_)
RowResults(rows) ==
    IF rows = << >> THEN << >> ELSE RowResult(Head(rows)) \o RowResults(Tail(rows))

HeaderlessDone ==
    /\ fn_pc # "call"
    /\ fn_args.f = "_extract_from_tables_pandas"
    /\ Len(fn_args.tables_data) = 1
    /\ Len(fn_args.tables_data[1].data) >= 2
    /\ Headerless(fn_args.tables_data[1].data)

\* C23: a table of two rows or more without a header keyword and with at
\* least 6 columns is read by position, every row as a data row, the first
\* included; with fewer than 6 columns it is skipped; the call never raises.
C23_HeaderlessTables ==
    HeaderlessDone
       => /\ fn_pc = "returned"
          /\ fn_ret = IF Len(fn_args.tables_data[1].data[1]) >= 6
                      THEN PyList(RowResults(fn_args.tables_data[1].data))
                      ELSE PyList(<< >>)

\* the same for the tables of at most 7 columns
C23_UpToSevenColumns ==
    HeaderlessDone /\ Len(fn_args.tables_data[1].data[1]) <= 7
       => /\ fn_pc = "returned"
          /\ fn_ret = IF Len(fn_args.tables_data[1].data[1]) >= 6
                      THEN PyList(RowResults(fn_args.tables_data[1].data))
                      ELSE PyList(<< >>)

---------------------------------------------------------------------------
(* Claims about the order of the transactions of the tables                *)

SeveralTablesDone ==
    /\ fn_pc # "call"
    /\ fn_args.f = "_extract_from_tables_pandas"
    /\ \A i \in 1..Len(fn_args.tables_data) :
          fn_args.tables_data[i].data \in SeveralRowTables

\* under the header with two CARGO columns the debit cell of a row cannot be
\* read: every row that gets as far as its amounts raises
RowsRaise(table) == table[1] = Header_two_cargos

TableResult(table) ==
    IF RowsRaise(table) THEN << >> ELSE RowResults(Tail(table))

RECURSIVE TableResults(_)
TableResults(tables_data) ==
    IF tables_data = << >> THEN << >>
    ELSE TableResult(Head(tables_data).data) \o TableResults(Tail(tables_data))

\* C24: the transactions come in table order, then row order, the expense
\* of a row before its income; a row with an empty date cell, a summary word
\* in its description, a date that does not resolve or an empty description,
\* and a row whose processing raises, gives nothing and takes nothing from
\* the rows and tables before and after it.
C24_TableThenRowOrder ==
    SeveralTablesDone
       => /\ fn_pc = "returned"
          /\ fn_ret = PyList(TableResults(fn_args.tables_data))

\* a table whose rows raise, then one with a summary row between two rows
\* that give three transactions
C24_Witness ==
    /\ SeveralTablesDone
    /\ Len(fn_args.tables_data) = 2
    /\ fn_args.tables_data[1].data = <<Header_two_cargos, Row_both>>
    /\ fn_args.tables_data[2].data = <<CartolaHeader, Row_expense, Row_summary, Row_both>>
    /\ Len(fn_ret.v) = 3
    /\ fn_ret.v[1].description = PyStr(Str_Uber_Trip)
    /\ fn_ret.v[2].type = PyStr(Str_egreso)
    /\ fn_ret.v[3].type = PyStr(Str_ingreso)

---------------------------------------------------------------------------
(* Claims about the documented Banco Chile header                          *)

DocumentedDone(header) ==
    /\ fn_pc # "call"
    /\ fn_args.f = "_extract_from_tables_pandas"
    /\ fn_args.tables_data[1].data[1] = header

\* the four columns are found where the layout has them, and the rows give
\* their transactions
LayoutRead(header) ==
    /\ _find_column(header, FechaKeywords) = 1
    /\ _find_column(header, DetalleKeywords) = 2
    /\ _find_column(header, CargoKeywords) = 5
    /\ _find_column(header, AbonoKeywords) = 6
    /\ fn_pc = "returned"
    /\ fn_ret = PyList(RowResults(fn_args.rows))

\* C25: under the header DÍA/MES, DETALLE, SUCURSAL, N°DOCTO, CHEQUES/CARGOS,
\* DEPOSITOS/ABONOS, SALDO the date, description, debit and credit columns
\* are all found, the table is not skipped and its data rows give their
\* transactions.
C25_DocumentedLayout ==
    DocumentedDone(Header_banco_chile) => LayoutRead(Header_banco_chile)

\* with DIA/MES written without the accent the layout is read
C25_UnaccentedLayout ==
    DocumentedDone(Header_sin_tilde) => LayoutRead(Header_sin_tilde)

---------------------------------------------------------------------------
(* Claims about the amounts of the text tier                               *)

TextLinesOf(text) == StrSplit(text, "\n")

\* line i is a candidate line: not empty, no header word, a keyword
IsCandidate(lines, i) ==
    /\ StrStrip(lines[i]) # << >>
    /\ \A w \in 1..Len(TextHeaderWords) : ~Occurs(TextHeaderWords[w], StrStrip(lines[i]))
    /\ \E w \in 1..Len(TextKeywords) : Occurs(TextKeywords[w], StrStrip(lines[i]))

BranchCodes ==
    {<<"C", "E", "N", "T", "R", "A", "L">>, <<"N", "T", "R", "A", "L">>, <<"E", "R", "N", "E", "T">>, <<"I", "N", "T", "E", "R", "N", "E", "T">>}

\* the lines of the window of candidate i that can give its amount
AmountLines(lines, i) ==
    {j \in (i + 1)..(i + 5) :
        /\ j <= Len(lines)
        /\ StrStrip(lines[j]) \notin BranchCodes
        /\ FloatGtZero(_parse_amount(StrStrip(lines[j])))}

AmountLineOf(lines, i) ==
    CHOOSE j \in AmountLines(lines, i) : \A k \in AmountLines(lines, i) : j <= k

\* the candidate lines that have an amount, in line order
RECURSIVE EmittingFrom(_, _)
EmittingFrom(lines, i) ==
    IF i > Len(lines) THEN << >>
    ELSE IF IsCandidate(lines, i) /\ AmountLines(lines, i) # {}
    THEN <<i>> \o EmittingFrom(lines, i + 1)
    ELSE EmittingFrom(lines, i + 1)

Emitting(text) == EmittingFrom(TextLinesOf(text), 1)

\* C26: the amount of a candidate line i is that of the first line among
\* i+1..i+5 that is no branch code and normalizes to more than 0; branch codes
\* count toward the five lines, line i+6 is never used, and a candidate without
\* such a line emits nothing.
C26_FirstAmountInWindow ==
    TextDone
       => /\ Len(fn_ret.v) = Len(Emitting(fn_args.text))
          /\ \A k \in 1..Len(fn_ret.v) :
                fn_ret.v[k].amount =
                   _parse_amount(StrStrip(TextLinesOf(fn_args.text)[
                       AmountLineOf(TextLinesOf(fn_args.text), Emitting(fn_args.text)[k])]))

\* the amount on the fifth line behind the candidate, branch codes between
C26_Witness ==
    /\ TextDone
    /\ fn_args.text = JoinNewline(<<Line_PAGO_LIDER, Line_CENTRAL, Line_Cartola,
                                    Line_CENTRAL, Line_CENTRAL, Line_150_000>>)
    /\ Len(fn_ret.v) = 1
    /\ fn_ret.v[1].amount = Float(150000, 0)

\* the amount on the sixth line behind the candidate is not used
C26_BeyondWindow ==
    /\ TextDone
    /\ fn_args.text = JoinNewline(<<Line_PAGO_LIDER, Line_CENTRAL, Line_Cartola,
                                    Line_CENTRAL, Line_CENTRAL, Line_CENTRAL,
                                    Line_150_000>>)
    => fn_ret = PyList(<< >>)

---------------------------------------------------------------------------
(* Claims about the date and the description of the text tier              *)

\* the first n characters of line, all of it when it has no more
FirstChars(line, n) ==
    [c \in 1..(IF Len(line) < n THEN Len(line) ELSE n) |-> line[c]]

---------------------------------------------------------------------------
(* Claims about amount lines shared by candidate lines                     *)

\* the lines that give an emitted transaction its amount
Suppliers(text) ==
    {AmountLineOf(TextLinesOf(text), Emitting(text)[k]) : k \in 1..Len(Emitting(text))}

\* C29: each line of the text gives its amount to at most one emitted
\* transaction: there are no more transactions than lines that supply an
\* amount.
C29_AmountLineUsedOnce ==
    TextDone => Len(fn_ret.v) <= Cardinality(Suppliers(fn_args.text))

---------------------------------------------------------------------------
(* Claims about amounts in Chilean format                                  *)

IsDigit(c) == c \in {"0", "1", "2", "3", "4", "5", "6", "7", "8", "9"}

NotMoneySign(c) == c \notin {"$", " "}

\* s without '$' and blanks, and without a leading '-'
Unsigned(s) ==
    IF SelectSeq(s, NotMoneySign) # << >> /\ Head(SelectSeq(s, NotMoneySign)) = "-"
    THEN Tail(SelectSeq(s, NotMoneySign))
    ELSE SelectSeq(s, NotMoneySign)

\* groups of digits with one '.' between each two
DigitGroups(u) ==
    /\ u # << >>
    /\ \A i \in 1..Len(u) : IsDigit(u[i]) \/ u[i] = "."
    /\ IsDigit(u[1]) /\ IsDigit(u[Len(u)])
    /\ \A i \in 1..(Len(u) - 1) : ~(u[i] = "." /\ u[i + 1] = ".")

\* C28: a string of digit groups separated by '.', with or without '$',
\* blanks and a leading '-', gives the whole number its digits spell: every
\* '.' is a thousands separator and the sign is dropped.
C28_ThousandsSeparators ==
    amount_pc # "call" /\ amount_pc # "idle" /\ DigitGroups(Unsigned(amount_str))
       => /\ amount_pc # "raised"
          /\ amount_ret = Float(DigitsValue(SelectSeq(Unsigned(amount_str), IsDigit)), 0)

C28_Witness ==
    /\ amount_pc = "returned"
    /\ amount_str = Str_minus_5_000
    /\ amount_ret = Float(5000, 0)

C28_Examples ==
    amount_pc = "returned"
       => /\ amount_str = Str_1_234_567 => amount_ret = Float(1234567, 0)
          /\ amount_str = Str_150_000 => amount_ret = Float(150000, 0)
          /\ amount_str = Str_minus_5_000 => amount_ret = Float(5000, 0)

---------------------------------------------------------------------------
(* Claims about every transaction the two extractors emit                  *)

\* a call of either extractor has returned its list
Emitted ==
    /\ fn_pc # "call"
    /\ fn_args.f \in {"_extract_from_text", "_extract_from_tables_pandas"}
    /\ fn_ret.t = "list"

PositiveAndTyped(transaction) ==
    /\ transaction.amount.n > 0
    /\ transaction.type \in {PyStr(Str_ingreso), PyStr(Str_egreso)}

CandidateLines(lines) == {i \in 1..Len(lines) : IsCandidate(lines, i)}

\* the transactions come one from each of some candidate lines, taken in
\* line order
OnePerCandidateInOrder(transactions, lines) ==
    \E from \in [1..Len(transactions) -> CandidateLines(lines)] :
        /\ \A k \in 1..(Len(transactions) - 1) : from[k] < from[k + 1]
        /\ \A k \in 1..Len(transactions) :
              CandidateOf(lines[from[k]], transactions[k].description)

\* C30: every transaction of the text tier and of the table tier has an
\* amount > 0 and the type 'ingreso' or 'egreso'; those of the text tier come
\* from distinct candidate lines in the order of the lines.
C30_EmittedWellFormed ==
    Emitted
       => /\ \A k \in 1..Len(fn_ret.v) : PositiveAndTyped(fn_ret.v[k])
          /\ fn_args.f = "_extract_from_text"
                => OnePerCandidateInOrder(fn_ret.v, TextLinesOf(fn_args.text))

\* the text tier has emitted an expense and then an income, from two
\* candidate lines
C30_Witness ==
    /\ Emitted
    /\ fn_args.f = "_extract_from_text"
    /\ Len(fn_ret.v) = 2
    /\ fn_ret.v[1].description # fn_ret.v[2].description
    /\ fn_ret.v[1].type = PyStr(Str_egreso)
    /\ fn_ret.v[2].type = PyStr(Str_ingreso)

\* the table tier has emitted an expense and an income
C30_WitnessTable ==
    /\ Emitted
    /\ fn_args.f = "_extract_from_tables_pandas"
    /\ \E k \in 1..Len(fn_ret.v) : fn_ret.v[k].type = PyStr(Str_egreso)
    /\ \E k \in 1..Len(fn_ret.v) : fn_ret.v[k].type = PyStr(Str_ingreso)

====
